---- MODULE Spec2Model ----
(***************************************************************************)
(* A model of the iq-bot writer: template expansion, deterministic ids,    *)
(* the Redis-backed cache and the check-cache / enrich / generate / store  *)
(* flow of WriterService.generate_prompt_response.                         *)
(*                                                                         *)
(* Representation.                                                         *)
(*  - A Python str is a sequence of tokens.  A token is a single character *)
(*    ("{", "}", ":", "_", "s", "x", ...) or a block of characters that no *)
(*    operation of the program looks inside ("iq", "title", a uuid's 36    *)
(*    characters).  Blocks hold none of the characters { } : and end       *)
(*    neither in "s" nor in "_id", so slicing, stripping, splitting and    *)
(*    the placeholder pattern act on them as on the text they stand for.   *)
(*  - A Python value is a record [t |-> tag, v |-> payload] with tag       *)
(*    "s" (str), "i" (int), "b" (bool), "l" (list), "d" (dict), "n" (None).*)
(*  - A Python dict is the sequence of its <<key, value>> pairs in         *)
(*    insertion order; keys are strs.                                      *)
(***************************************************************************)
EXTENDS Integers, Sequences, FiniteSets, TLC

VARIABLES
    templates_cache,  \* PromptTemplateService._templates_cache: the loaded catalog
    data_sources,     \* the data sources handed to initialize_prompts
    content_files,    \* resources/prompt-contents/<topic>.txt: required f-keys, per topic
    store,            \* the Redis key space: key -> [val, exp]
    now,              \* seconds since the start of the run (Redis' clock)
    pc,               \* per caller: position inside generate_prompt_response
    req,              \* per caller: the locals of the request under way
    log,              \* per caller: what the request under way has done so far
    outcome,          \* per caller: result of the last finished request
    started,          \* number of generate_prompt_response calls made so far
    inits,            \* what the initialize_prompts runs so far did
    env,              \* the run's environment: whether Redis may fail, and how many
                      \* hours, runs of initialize_prompts and requests the run has
    fin,              \* input of the pure function under test (pure specifications)
    fout              \* its output

vars == <<templates_cache, data_sources, content_files, store, now, pc, req, log,
          outcome, started, inits, env, fin, fout>>

----------------------------------------------------------------------------
(* Python values *)

PStr(s) == [t |-> "s", v |-> s]
PInt(n) == [t |-> "i", v |-> n]
PBool(b) == [t |-> "b", v |-> b]
PList(l) == [t |-> "l", v |-> l]
PDict(d) == [t |-> "d", v |-> d]
PNone == [t |-> "n", v |-> <<>>]

IsDict(x) == x.t = "d"
IsList(x) == x.t = "l"

(* Python dicts: ordered <<key, value>> pairs *)

DictKeys(d) == [i \in 1..Len(d) |-> d[i][1]]
DictHas(d, k) == \E i \in 1..Len(d) : d[i][1] = k
DictIndex(d, k) == CHOOSE i \in 1..Len(d) : d[i][1] = k
DictGet(d, k) == d[DictIndex(d, k)][2]
\* d[k] = v: an existing key keeps its position, a new key goes last
DictSet(d, k, v) ==
    IF DictHas(d, k) THEN [d EXCEPT ![DictIndex(d, k)] = <<k, v>>]
    ELSE Append(d, <<k, v>>)
\* d.get(k, default)
DictGetOr(d, k, default) == IF DictHas(d, k) THEN DictGet(d, k) ELSE default

RECURSIVE DictUpdate(_, _)
\* d.update(e)
DictUpdate(d, e) ==
    IF e = <<>> THEN d
    ELSE DictUpdate(DictSet(d, e[1][1], e[1][2]), Tail(e))

----------------------------------------------------------------------------
(* Python strs *)

Range(f) == {f[i] : i \in DOMAIN f}

\* code points of the single characters the model sorts by
CharCode(c) ==
    CASE c = "1" -> 49 [] c = "2" -> 50 [] c = ":" -> 58
      [] c = "A" -> 65 [] c = "B" -> 66 [] c = "_" -> 95
      [] c = "a" -> 97 [] c = "b" -> 98 [] c = "d" -> 100
      [] c = "i" -> 105 [] c = "s" -> 115 [] c = "x" -> 120
      [] c = "y" -> 121 [] c = "{" -> 123 [] c = "}" -> 125
      [] OTHER -> 0

RECURSIVE StrLess(_, _)
\* a < b on Python strs: lexicographic by code point
StrLess(a, b) ==
    IF b = <<>> THEN FALSE
    ELSE IF a = <<>> THEN TRUE
    ELSE IF a[1] = b[1] THEN StrLess(Tail(a), Tail(b))
    ELSE CharCode(a[1]) < CharCode(b[1])

RECURSIVE SortedInsert(_, _)
SortedInsert(sorted, x) ==
    IF sorted = <<>> THEN <<x>>
    ELSE IF StrLess(x, sorted[1]) THEN <<x>> \o sorted
    ELSE <<sorted[1]>> \o SortedInsert(Tail(sorted), x)

RECURSIVE Sorted(_)
\* sorted(list of strs): stable, ascending
Sorted(l) ==
    IF l = <<>> THEN <<>>
    ELSE SortedInsert(Sorted(SubSeq(l, 1, Len(l) - 1)), l[Len(l)])

RECURSIVE Join(_, _)
\* sep.join(list of strs)
Join(sep, l) ==
    IF l = <<>> THEN <<>>
    ELSE IF Len(l) = 1 THEN l[1]
    ELSE l[1] \o sep \o Join(sep, Tail(l))

EndsWith(s, suffix) ==
    /\ Len(s) >= Len(suffix)
    /\ SubSeq(s, Len(s) - Len(suffix) + 1, Len(s)) = suffix

StartsWith(s, prefix) ==
    /\ Len(s) >= Len(prefix)
    /\ SubSeq(s, 1, Len(prefix)) = prefix

\* s[:-n]
DropLast(s, n) == SubSeq(s, 1, Len(s) - n)

RECURSIVE RStrip(_, _)
\* s.rstrip(c): every trailing c goes
RStrip(s, c) ==
    IF s # <<>> /\ s[Len(s)] = c THEN RStrip(DropLast(s, 1), c) ELSE s

RECURSIVE LastSegment(_, _)
\* s.split(sep)[-1] for a one-character sep
LastSegment(s, sep) ==
    IF s = <<>> THEN <<>>
    ELSE IF s[Len(s)] = sep THEN <<>>
    ELSE Append(LastSegment(DropLast(s, 1), sep), s[Len(s)])

RECURSIVE Flat(_)
\* the text of a str as one block
Flat(s) == IF s = <<>> THEN "" ELSE s[1] \o Flat(Tail(s))

RECURSIVE Digits(_)
Digits(n) ==
    IF n < 10 THEN <<CASE n = 0 -> "0" [] n = 1 -> "1" [] n = 2 -> "2" [] n = 3 -> "3"
                       [] n = 4 -> "4" [] n = 5 -> "5" [] n = 6 -> "6" [] n = 7 -> "7"
                       [] n = 8 -> "8" [] OTHER -> "9">>
    ELSE Digits(n \div 10) \o Digits(n % 10)

RECURSIVE PyStr(_)
RECURSIVE DictRepr(_)
\* repr of a dict's items, as str(dict) writes them: 'k': v, 'k': v
DictRepr(d) ==
    IF d = <<>> THEN <<>>
    ELSE <<"'">> \o d[1][1] \o <<"'", ":", " ">>
         \o (IF d[1][2].t = "s" THEN <<"'">> \o d[1][2].v \o <<"'">> ELSE PyStr(d[1][2]))
         \o (IF Len(d) > 1 THEN <<",", " ">> ELSE <<>>)
         \o DictRepr(Tail(d))

\* str(x)
PyStr(x) ==
    CASE x.t = "s" -> x.v
      [] x.t = "i" -> Digits(x.v)
      [] x.t = "b" -> IF x.v THEN <<"True">> ELSE <<"False">>
      [] x.t = "d" -> <<"{">> \o DictRepr(x.v) \o <<"}">>
      [] x.t = "n" -> <<"None">>
      [] OTHER -> <<"[...]">>

----------------------------------------------------------------------------
(* str.format with keyword arguments kw, by what CPython's formatter does on *)
(* the characters the model uses: {{ and }} are literal braces, {name} looks name up in kw      *)
(* (KeyError), an empty or all-digit name is positional (IndexError with no  *)
(* positional arguments), a lone or nested brace is a ValueError, and a      *)
(* non-empty format spec after ":" is one no str accepts (ValueError).       *)

IsDigit(c) == c \in {"0", "1", "2", "3", "4", "5", "6", "7", "8", "9"}

FmtOk(s) == [ok |-> TRUE, v |-> s, err |-> "", name |-> <<>>]
FmtErr(kind, n) == [ok |-> FALSE, v |-> <<>>, err |-> kind, name |-> n]

\* index of the first token of s at or after i that is in cs, else 0
RECURSIVE FirstOf(_, _, _)
FirstOf(s, i, cs) ==
    IF i > Len(s) THEN 0
    ELSE IF s[i] \in cs THEN i
    ELSE FirstOf(s, i + 1, cs)

RECURSIVE PyFormat(_, _)
PyFormat(s, kw) ==
    IF s = <<>> THEN FmtOk(<<>>)
    ELSE IF s[1] = "{" /\ Len(s) >= 2 /\ s[2] = "{" THEN
        LET rest == PyFormat(SubSeq(s, 3, Len(s)), kw)
        IN  IF rest.ok THEN FmtOk(<<"{">> \o rest.v) ELSE rest
    ELSE IF s[1] = "}" /\ Len(s) >= 2 /\ s[2] = "}" THEN
        LET rest == PyFormat(SubSeq(s, 3, Len(s)), kw)
        IN  IF rest.ok THEN FmtOk(<<"}">> \o rest.v) ELSE rest
    ELSE IF s[1] = "}" THEN FmtErr("ValueError", <<>>)
    ELSE IF s[1] = "{" THEN
        LET j == FirstOf(s, 2, {"{", "}"})
        IN  IF j = 0 \/ s[j] = "{" THEN FmtErr("ValueError", <<>>)
            ELSE LET field == SubSeq(s, 2, j - 1)
                     c == FirstOf(field, 1, {":"})
                     name == IF c = 0 THEN field ELSE SubSeq(field, 1, c - 1)
                     fspec == IF c = 0 THEN <<>> ELSE SubSeq(field, c + 1, Len(field))
                 IN  IF name = <<>> \/ \A i \in 1..Len(name) : IsDigit(name[i])
                         THEN FmtErr("IndexError", name)
                     ELSE IF ~DictHas(kw, name) THEN FmtErr("KeyError", name)
                     ELSE IF fspec # <<>> THEN FmtErr("ValueError", name)
                     ELSE LET rest == PyFormat(SubSeq(s, j + 1, Len(s)), kw)
                          IN  IF rest.ok
                                  THEN FmtOk(PyStr(DictGet(kw, name)) \o rest.v)
                              ELSE rest
    ELSE LET rest == PyFormat(Tail(s), kw)
         IN  IF rest.ok THEN FmtOk(<<s[1]>> \o rest.v) ELSE rest

----------------------------------------------------------------------------
(* iq_bot_global/utils.py *)

RECURSIVE extract_template_params(_)
\* re.findall(r'\{([^}]+)\}', s) as a set: leftmost matches, left to right
extract_template_params(template_str) ==
    LET s == template_str
        p == FirstOf(s, 1, {"{"})
        q == IF p = 0 THEN 0 ELSE FirstOf(s, p + 1, {"}"})
    IN  IF p = 0 \/ q = 0 THEN {}
        ELSE IF q = p + 1 THEN extract_template_params(SubSeq(s, p + 1, Len(s)))
        ELSE {SubSeq(s, p + 1, q - 1)}
                 \cup extract_template_params(SubSeq(s, q + 1, Len(s)))

NotFound == [found |-> FALSE, value |-> PNone]
Found(x) == [found |-> TRUE, value |-> x]

\* a resolver that unwraps as long as the value is a map with the name
RECURSIVE DirectMatchDeep(_, _)
DirectMatchDeep(param_name, direct) ==
    IF IsDict(direct) /\ DictHas(direct.v, param_name)
        THEN DirectMatchDeep(param_name, DictGet(direct.v, param_name))
    ELSE Found(direct)

\* "Check direct key match": the value under the name, or the value under the
\* same name inside it when it is a dict that has one
DirectMatch(param_name, direct) ==
    IF IsDict(direct) /\ DictHas(direct.v, param_name)
        THEN Found(DictGet(direct.v, param_name))
    ELSE Found(direct)

\* a search that goes through every branch and keeps the last match
LastFound(r, rest) == IF rest.found THEN rest ELSE r

\* `if found: return True, result`: the first match ends the search
FirstFound(r, rest) == IF r.found THEN r ELSE rest

RECURSIVE find_param_in_dict(_, _)
RECURSIVE FindInItems(_, _)
RECURSIVE FindInList(_, _)

\* the loop over a list-valued entry: only dict items are searched
FindInList(param_name, items) ==
    IF items = <<>> THEN NotFound
    ELSE LET r == IF IsDict(items[1]) THEN find_param_in_dict(param_name, items[1])
                  ELSE NotFound
         IN  FirstFound(r, FindInList(param_name, Tail(items)))

\* the loop over data_dict.items(): dicts and lists of dicts, first match wins
FindInItems(param_name, pairs) ==
    IF pairs = <<>> THEN NotFound
    ELSE LET value == pairs[1][2]
             r == IF IsDict(value) THEN find_param_in_dict(param_name, value)
                  ELSE IF IsList(value) THEN FindInList(param_name, value.v)
                  ELSE NotFound
         IN  FirstFound(r, FindInItems(param_name, Tail(pairs)))

find_param_in_dict(param_name, data_dict) ==
    IF ~IsDict(data_dict) THEN NotFound
    ELSE IF DictHas(data_dict.v, param_name)
        THEN DirectMatch(param_name, DictGet(data_dict.v, param_name))
    ELSE FindInItems(param_name, data_dict.v)

\* the format_params dict built before the final template_str.format call;
\* `order` is the iteration order of the set of required names
RECURSIVE NestedFormatParams(_, _)
NestedFormatParams(order, params) ==
    IF order = <<>> THEN <<>>
    ELSE LET before == NestedFormatParams(DropLast(order, 1), params)
             r == find_param_in_dict(order[Len(order)], PDict(params))
         IN  IF r.found THEN DictSet(before, order[Len(order)], r.value) ELSE before

\* some sequence holding each element of the finite set S once
RECURSIVE SeqOfSet(_)
SeqOfSet(S) ==
    IF S = {} THEN <<>>
    ELSE LET x == CHOOSE x \in S : TRUE IN <<x>> \o SeqOfSet(S \ {x})

format_template_with_nested_params(template_str, params) ==
    PyFormat(template_str,
             NestedFormatParams(SeqOfSet(extract_template_params(template_str)), params))

validate_template_params(template_str, params) ==
    \A param \in extract_template_params(template_str) :
        find_param_in_dict(param, PDict(params)).found

RECURSIVE AddParameter(_, _, _)
\* one round of the loop over items[1:]: every combo extended by every value
AddParameter(combinations, param_name, values) ==
    IF combinations = <<>> THEN <<>>
    ELSE [i \in 1..Len(values) |-> DictSet(combinations[1], param_name, values[i])]
         \o AddParameter(Tail(combinations), param_name, values)

RECURSIVE AddParameters(_, _)
AddParameters(combinations, items) ==
    IF items = <<>> THEN combinations
    ELSE AddParameters(AddParameter(combinations, items[1][1], items[1][2].v), Tail(items))

\* data_sources: a dict from parameter name to a list of candidate values
generate_param_combinations(sources) ==
    IF sources = <<>> THEN << <<>> >>
    ELSE LET first == [i \in 1..Len(sources[1][2].v) |->
                          << <<sources[1][1], sources[1][2].v[i]>> >>]
             combinations == AddParameters(first, Tail(sources))
         IN  IF combinations # <<>> THEN combinations ELSE << <<>> >>

RECURSIVE ContextParams(_, _)
\* the loop of extract_context_params over promptContexts
ContextParams(params, contexts) ==
    IF contexts = <<>> THEN params
    ELSE LET param_key == RStrip(contexts[1].name, "s")
             values == contexts[1].values
         IN  IF values = <<>> THEN ContextParams(params, Tail(contexts))
             ELSE ContextParams(DictSet(params, param_key, values[1]), Tail(contexts))

S_id == <<"i", "d">>

extract_context_params(prompt_id, prompt_contexts) ==
    ContextParams(<< <<S_id, prompt_id>> >>, prompt_contexts)

----------------------------------------------------------------------------
(* Field names, key prefixes and constants (iq_bot_global/constants.py) *)

S_topic == <<"topic">>
S_title == <<"title">>
S_cache_key == <<"cache_key">>
S_context_keys == <<"context_key", "s">>
S_ttl_seconds == <<"ttl_second", "s">>
S_enabled == <<"enabled">>
S_prompt_template_id == <<"prompt_template", "_", "i", "d">>

CACHE_TTL_DEFAULT == 3600
CACHE_TTL_WEEK == 604800

\* REDIS_KEYS.GENERATED_PROMPT_PREFIX, REDIS_KEYS.PROMPT_PREFIX
GENERATED_PROMPT_PREFIX == <<"iq", ":", "generated-prompt">>
PROMPT_PREFIX == <<"iq", ":", "prompt-response">>

\* f"{GENERATED_PROMPT_PREFIX}:{template_id}:{prompt_id}"
GeneratedPromptKey(template_id, prompt_id) ==
    GENERATED_PROMPT_PREFIX \o <<":">> \o template_id \o <<":">> \o prompt_id

----------------------------------------------------------------------------
(* The bytes held by Redis.  json.dumps output is kept as the document it    *)
(* encodes; any other text is kept as the text.  json.loads decodes the      *)
(* first, and of the second only a run of digits (a JSON number).            *)

JsonBytes(doc) == [kind |-> "json", doc |-> doc, s |-> <<>>]
TextBytes(s) == [kind |-> "text", doc |-> PNone, s |-> s]
NoBytes == [kind |-> "none", doc |-> PNone, s |-> <<>>]

\* `if cached:` on Optional[bytes]: None and b'' are both false
Truthy(b) == b.kind = "json" \/ (b.kind = "text" /\ b.s # <<>>)

RECURSIVE DigitsValue(_)
DigitsValue(s) ==
    IF s = <<>> THEN 0
    ELSE 10 * DigitsValue(DropLast(s, 1))
         + (CHOOSE n \in 0..9 : Digits(n) = <<s[Len(s)]>>)

JsonLoads(b) ==
    IF b.kind = "json" THEN [ok |-> TRUE, doc |-> b.doc]
    ELSE IF b.s # <<>> /\ (\A i \in 1..Len(b.s) : IsDigit(b.s[i])) /\ (Len(b.s) = 1 \/ b.s[1] # "0")
        THEN [ok |-> TRUE, doc |-> PInt(DigitsValue(b.s))]
    ELSE [ok |-> FALSE, doc |-> PNone]

----------------------------------------------------------------------------
(* iq_bot_global/services/redis_service.py.  A store operation fails (a      *)
(* RedisError, caught by the adapter) when `up` is false.                    *)

Live(st, key, t) == key \in DOMAIN st /\ t < st[key].exp

get_cached_response(st, key, t, up) ==
    IF up /\ Live(st, key, t) THEN st[key].val ELSE NoBytes

\* a store that keeps the value a key already holds
set_cached_response_nx(st, key, val, ttl, t, up) ==
    IF up /\ ttl > 0 /\ ~Live(st, key, t)
        THEN [k \in DOMAIN st \cup {key} |->
                 IF k = key THEN [val |-> val, exp |-> t + ttl] ELSE st[k]]
    ELSE st

\* setex(key, ttl, value): Redis refuses a ttl that is not positive
set_cached_response(st, key, val, ttl, t, up) ==
    IF up /\ ttl > 0
        THEN [k \in DOMAIN st \cup {key} |->
                 IF k = key THEN [val |-> val, exp |-> t + ttl] ELSE st[k]]
    ELSE st

\* what Redis still holds at time t
Unexpired(st, t) == [k \in {k \in DOMAIN st : t < st[k].exp} |-> st[k]]

----------------------------------------------------------------------------
(* services/prompt_template_service.py *)

\* a == b on the Python values of the model
PyEq(a, b) == a.t = b.t /\ a.v = b.v

\* bool(x)
PyTruthy(x) ==
    CASE x.t = "b" -> x.v
      [] x.t = "i" -> x.v # 0
      [] x.t = "n" -> FALSE
      [] OTHER -> x.v # <<>>

Returned(x) == [kind |-> "return", value |-> x]
Raised == [kind |-> "raise", value |-> PNone]

RECURSIVE TemplateScan(_, _)
\* the loop of get_template_by_id over templates.values(): template['id'] raises
\* on a value that is a list (TypeError) or a dict without 'id' (KeyError)
TemplateScan(entries, template_id) ==
    IF entries = <<>> THEN Returned(PNone)
    ELSE LET template == entries[1][2]
         IN  IF ~IsDict(template) \/ ~DictHas(template.v, S_id) THEN Raised
             ELSE IF PyEq(DictGet(template.v, S_id), PStr(template_id))
                 THEN Returned(template)
             ELSE TemplateScan(Tail(entries), template_id)

get_template_by_id(templates, template_id) == TemplateScan(templates, template_id)

----------------------------------------------------------------------------
(* services/prompt_service.py *)

\* the texts uuid.UUID() accepts; every other template id makes it raise
UuidTexts == {<<"T1">>, <<"T2">>}

\* str(uuid.uuid5(namespace, name)): one block per (namespace, name), a
\* different block for a different pair (SHA-1 taken as collision free)
uuid5(namespace, name) == <<"uuid5(" \o Flat(namespace) \o "," \o Flat(name) \o ")">>

\* one entry of id_parts
IdPart(param_value) ==
    IF IsDict(param_value) /\ DictHas(param_value.v, S_id)
        THEN PyStr(DictGet(param_value.v, S_id))
    ELSE PyStr(param_value)

IdParts(params) == [i \in 1..Len(params) |-> IdPart(params[i][2])]

\* a name that keeps the parts in the order the parameters come in
IdNameUnsorted(id_parts) ==
    IF id_parts # <<>> THEN Join(<<":">>, id_parts) ELSE <<"default">>

\* the name hashed into the id
IdName(id_parts) ==
    IF id_parts # <<>> THEN Join(<<":">>, Sorted(id_parts)) ELSE <<"default">>

\* an id that also depends on which run of initialize_prompts derives it
DeriveIdPerRun(template_id, params) ==
    uuid5(template_id, IdName(IdParts(params)) \o Digits(inits.runs))

\* generated_prompt_id, for a template id uuid.UUID() accepts
DeriveId(template_id, params) == uuid5(template_id, IdName(IdParts(params)))

\* the elements of S in the order they have in rank
RECURSIVE OrderBy(_, _)
OrderBy(S, rank) ==
    IF rank = <<>> THEN <<>>
    ELSE (IF rank[1] \in S THEN <<rank[1]>> ELSE <<>>) \o OrderBy(S, Tail(rank))

RECURSIVE TemplateDataSources(_, _)
\* the loop over required_params (a set, iterated in `order`)
TemplateDataSources(order, sources) ==
    IF order = <<>> THEN <<>>
    ELSE LET before == TemplateDataSources(DropLast(order, 1), sources)
             param == order[Len(order)]
             param_key == IF DictHas(sources, param) THEN param ELSE param \o <<"s">>
         IN  IF param = S_id THEN before
             ELSE IF DictHas(sources, param_key)
                 THEN DictSet(before, param, DictGet(sources, param_key))
             ELSE before

TemplateParamName(param_name) ==
    IF EndsWith(param_name, <<"s">>) THEN DropLast(param_name, 1) ELSE param_name

RECURSIVE AddFields(_, _, _, _)
\* for key, value in param_value.items(): skip the values equal to `same`
AddFields(d, prefix, items, same) ==
    IF items = <<>> THEN d
    ELSE AddFields(IF same.skip /\ PyEq(same.value, items[1][2]) THEN d
                   ELSE DictSet(d, prefix \o <<"_">> \o items[1][1], items[1][2]),
                   prefix, Tail(items), same)

RECURSIVE FormatParams(_)
\* format_params for the title; a dict value without its own name is a KeyError
FormatParams(params) ==
    IF params = <<>> THEN [ok |-> TRUE, d |-> <<>>]
    ELSE LET before == FormatParams(DropLast(params, 1))
             name == TemplateParamName(params[Len(params)][1])
             value == params[Len(params)][2]
         IN  IF ~before.ok THEN before
             ELSE IF IsDict(value) THEN
                 IF ~DictHas(value.v, name) THEN [ok |-> FALSE, d |-> <<>>]
                 ELSE LET own == DictGet(value.v, name)
                      IN  [ok |-> TRUE,
                           d |-> AddFields(DictSet(before.d, name, own), name, value.v,
                                           [skip |-> TRUE, value |-> own])]
             ELSE [ok |-> TRUE, d |-> DictSet(before.d, name, value)]

RECURSIVE CacheKeyParams(_, _)
CacheKeyParams(d, params) ==
    IF params = <<>> THEN d
    ELSE LET name == TemplateParamName(params[1][1])
             value == params[1][2]
         IN  CacheKeyParams(
                 DictSet(d, name, IF IsDict(value) /\ DictHas(value.v, S_id)
                                      THEN DictGet(value.v, S_id) ELSE value),
                 Tail(params))

RECURSIVE FlattenParams(_, _)
\* "Add all parameters to prompt data"
FlattenParams(prompt_data, params) ==
    IF params = <<>> THEN prompt_data
    ELSE LET value == params[1][2]
         IN  FlattenParams(
                 IF IsDict(value)
                     THEN AddFields(prompt_data, params[1][1], value.v,
                                    [skip |-> FALSE, value |-> PNone])
                 ELSE DictSet(prompt_data, params[1][1], value),
                 Tail(params))

Skipped == [made |-> FALSE, prompt |-> PNone]
Made(prompt) == [made |-> TRUE, prompt |-> prompt]

\* a title that keeps the template's text when a placeholder has no value
FormatTitleLenient(template, format_params) ==
    IF ~DictHas(template.v, S_title) \/ ~format_params.ok THEN FmtErr("KeyError", S_title)
    ELSE LET title == PyFormat(DictGet(template.v, S_title).v, format_params.d)
         IN  IF title.ok THEN title ELSE FmtOk(DictGet(template.v, S_title).v)

\* "Generate title using available parameters":
\* template['title'].format(**format_params), a KeyError skips the combination
FormatTitle(template, format_params) ==
    IF DictHas(template.v, S_title) /\ format_params.ok
        THEN PyFormat(DictGet(template.v, S_title).v, format_params.d)
    ELSE FmtErr("KeyError", S_title)

\* the body of the loop over param_combinations: the prompt appended for one
\* combination, or none when an exception skips it
GeneratePrompt(template, template_id, params, st, t, up) ==
    IF template_id \notin UuidTexts THEN Skipped
    ELSE
    LET generated_prompt_id == DeriveId(template_id, params)
        cached_prompt == get_cached_response(
                             st, PROMPT_PREFIX \o <<":">> \o generated_prompt_id, t, up)
        decoded == JsonLoads(cached_prompt)
        format_params == FormatParams(params)
        title == FormatTitle(template, format_params)
        cache_key_params == CacheKeyParams(<< <<S_id, PStr(generated_prompt_id)>> >>, params)
        cache_key_template == DictGetOr(template.v, S_cache_key, PStr(<<>>)).v
        valid == cache_key_template # <<>>
                 /\ validate_template_params(cache_key_template, cache_key_params)
        response_cache_key ==
            IF valid THEN format_template_with_nested_params(cache_key_template,
                                                             cache_key_params)
            ELSE FmtOk(<<>>)
    IN  IF Truthy(cached_prompt) /\ decoded.ok THEN Made(decoded.doc)
        ELSE IF ~format_params.ok \/ ~title.ok \/ ~response_cache_key.ok THEN Skipped
        ELSE IF ~DictHas(template.v, S_topic) \/ ~DictHas(template.v, S_context_keys)
            THEN Skipped
        ELSE Made(PDict(FlattenParams(
                 << <<S_id, PStr(generated_prompt_id)>>,
                    <<S_prompt_template_id, PStr(template_id)>>,
                    <<S_title, PStr(title.v)>>,
                    <<S_topic, DictGet(template.v, S_topic)>>,
                    <<S_cache_key, PStr(response_cache_key.v)>>,
                    <<S_context_keys, DictGet(template.v, S_context_keys)>>,
                    <<S_ttl_seconds, DictGetOr(template.v, S_ttl_seconds, PInt(3600))>>,
                    <<S_enabled, DictGetOr(template.v, S_enabled, PBool(TRUE))>> >>,
                 params)))

\* a loop that an exception ends
AfterCombinationStopping(made, rest) == IF made THEN rest ELSE <<>>

\* what is left of the loop over param_combinations after one combination:
\* both except clauses `continue`
AfterCombination(made, rest) == rest

RECURSIVE GeneratePrompts(_, _, _, _, _, _)
GeneratePrompts(template, template_id, combinations, st, t, up) ==
    IF combinations = <<>> THEN <<>>
    ELSE LET g == GeneratePrompt(template, template_id, combinations[1], st, t, up)
         IN  (IF g.made THEN <<g.prompt>> ELSE <<>>)
             \o GeneratePrompts(template, template_id,
                                AfterCombination(g.made, Tail(combinations)), st, t, up)

\* returns the list of prompts, or raises (no template, or the lookup raised)
generate_prompts_from_template(templates, template_id, sources, rank, st, t, up) ==
    LET looked == get_template_by_id(templates, template_id)
    IN  IF looked.kind = "raise" \/ looked.value = PNone THEN Raised
        ELSE LET template == looked.value
                 cache_key_template == DictGetOr(template.v, S_cache_key, PStr(<<>>)).v
                 required_params == extract_template_params(cache_key_template)
                 template_data_sources ==
                     TemplateDataSources(OrderBy(required_params, rank), sources)
                 param_combinations == generate_param_combinations(template_data_sources)
             IN  Returned(PList(GeneratePrompts(template, template_id, param_combinations,
                                                st, t, up)))

RECURSIVE CachePrompts(_, _, _, _, _)
\* "Cache each prompt"; prompt['id'] raising ends the loop (the except clause
\* of initialize_prompts moves on to the next template)
CachePrompts(st, template_id, generated, t, up) ==
    IF generated = <<>> THEN st
    ELSE LET prompt == generated[1]
         IN  IF ~IsDict(prompt) \/ ~DictHas(prompt.v, S_id) THEN st
             ELSE CachePrompts(
                      set_cached_response(
                          st,
                          GeneratedPromptKey(template_id, PyStr(DictGet(prompt.v, S_id))),
                          JsonBytes(prompt),
                          DictGetOr(prompt.v, S_ttl_seconds, PInt(CACHE_TTL_DEFAULT)).v,
                          t, up),
                      template_id, Tail(generated), t, up)

\* st: the store so far; crashed: an exception has left initialize_prompts;
\* tried: the ids of the templates handed to generate_prompts_from_template
InitState(st, crashed) == [st |-> st, crashed |-> crashed, tried |-> <<>>]

\* a loop that generates for every template, whatever its flag
IsEnabledAlways(template) == TRUE

\* the test of "Get the enabled flag": template['enabled'] is true
IsEnabled(template) == PyTruthy(DictGet(template.v, S_enabled))

RECURSIVE InitTopic(_, _, _, _, _, _, _)
\* the loop over one topic's templates; template['enabled'] on an entry
\* without that field is a KeyError outside every try: initialize_prompts ends
InitTopic(state, topic_data, templates, sources, rank, t, up) ==
    IF topic_data = <<>> \/ state.crashed THEN state
    ELSE LET template == topic_data[1]
             rest == Tail(topic_data)
         IN  IF ~IsDict(template) \/ ~DictHas(template.v, S_id)
                 THEN InitTopic(state, rest, templates, sources, rank, t, up)
             ELSE IF ~DictHas(template.v, S_enabled)
                 THEN [state EXCEPT !.crashed = TRUE]
             ELSE IF ~IsEnabled(template)
                 THEN InitTopic(state, rest, templates, sources, rank, t, up)
             ELSE LET template_id == DictGet(template.v, S_id).v
                      generated == generate_prompts_from_template(
                                       templates, template_id, sources, rank, state.st, t, up)
                  IN  InitTopic(
                          IF generated.kind = "raise"
                              THEN [state EXCEPT !.tried = Append(@, template_id)]
                          ELSE [state EXCEPT
                                   !.st = CachePrompts(state.st, template_id,
                                                       generated.value.v, t, up),
                                   !.tried = Append(@, template_id)],
                          rest, templates, sources, rank, t, up)

RECURSIVE InitTopics(_, _, _, _, _, _, _)
InitTopics(state, topics, templates, sources, rank, t, up) ==
    IF topics = <<>> \/ state.crashed THEN state
    ELSE InitTopics(
             IF IsList(topics[1][2])
                 THEN InitTopic(state, topics[1][2].v, templates, sources, rank, t, up)
             ELSE state,
             Tail(topics), templates, sources, rank, t, up)

\* the store after initialize_prompts(data_sources), and whether it raised
initialize_prompts(templates, sources, rank, st, t, up) ==
    InitTopics(InitState(st, FALSE), templates, templates, sources, rank, t, up)

----------------------------------------------------------------------------
(* services/api/client.py, services/api/endpoints.py: the enrichment provider *)

S_get_characters == <<"get_character", "s">>

\* the attributes of ApiClient that are operations taking no argument
ProviderOperations == {S_get_characters}

\* _generate_cache_key(endpoint_name) with no kwargs: f"api:{endpoint_name}:"
ApiCacheKey(endpoint_name) == <<"api", ":">> \o endpoint_name \o <<":">>

\* get_endpoint_ttl
EndpointTtl(endpoint_name) ==
    IF endpoint_name = S_get_characters THEN CACHE_TTL_WEEK ELSE CACHE_TTL_DEFAULT

\* the JSON document the upstream data service answers with
ApiData == PDict(<< << <<"character", "s">>, PList(<<>>) >> >>)

\* _make_request: [ok, data, st]; `http` says whether the upstream call works
MakeRequest(endpoint_name, st, t, up, http) ==
    LET cache_key == ApiCacheKey(endpoint_name)
        cached_response == get_cached_response(st, cache_key, t, up)
        decoded == JsonLoads(cached_response)
    IN  IF Truthy(cached_response) /\ decoded.ok
            THEN [ok |-> TRUE, data |-> decoded.doc, st |-> st, set |-> FALSE]
        ELSE IF ~http THEN [ok |-> FALSE, data |-> PNone, st |-> st, set |-> FALSE]
        ELSE [ok |-> TRUE, data |-> ApiData, set |-> TRUE,
              st |-> set_cached_response(st, cache_key, JsonBytes(ApiData),
                                         EndpointTtl(endpoint_name), t, up)]

\* _get_context_data: an unknown name is a ValueError, a failing call too
GetContextData(context_key, st, t, up, http) ==
    IF context_key \notin ProviderOperations
        THEN [ok |-> FALSE, data |-> PNone, st |-> st, set |-> FALSE]
    ELSE MakeRequest(context_key, st, t, up, http)

----------------------------------------------------------------------------
(* services/writer_service.py *)

\* formatted_contexts of _build_context
RECURSIVE FormattedContexts(_)
FormattedContexts(items) ==
    IF items = <<>> THEN <<>>
    ELSE <<[name |-> items[1][1],
            values |-> IF IsList(items[1][2]) THEN items[1][2].v ELSE <<items[1][2]>>]>>
         \o FormattedContexts(Tail(items))

\* _build_context: [ok, params, cache_key]; cache_key <<>> stands for None too,
\* both are false in `if cache_key:`
BuildContext(prompt_data) ==
    IF ~DictHas(prompt_data, S_id) THEN [ok |-> FALSE, params |-> <<>>, cache_key |-> <<>>]
    ELSE LET params == extract_context_params(DictGet(prompt_data, S_id),
                                              FormattedContexts(prompt_data))
             formatted == IF DictHas(prompt_data, S_cache_key)
                              THEN PyFormat(DictGet(prompt_data, S_cache_key).v, params)
                          ELSE FmtOk(<<>>)
         IN  [ok |-> formatted.ok, params |-> params, cache_key |-> formatted.v]

RECURSIVE PrefixKeys(_)
\* format_dict of _build_prompt_data: every key prefixed with 'f'
PrefixKeys(d) ==
    IF d = <<>> THEN <<>>
    ELSE << <<<<"f">> \o d[1][1], d[1][2]>> >> \o PrefixKeys(Tail(d))

\* _build_prompt: whether the content and the question can be built
BuildPrompt(topic, title, context_data, files) ==
    /\ DictHas(files, topic)
    /\ PyFormat(DictGet(files, topic), PrefixKeys(context_data)).ok
    /\ PyFormat(title, context_data).ok

\* a cache check that never hits
CacheHitNever(cached_response) == FALSE

\* `if cached_response:` of _process_cached_prompt
CacheHit(cached_response) == Truthy(cached_response)

\* the TTL of every response, whatever the record says
ResponseTtlDefault(prompt_data) == CACHE_TTL_DEFAULT

\* prompt_data.get('ttl_seconds', CACHE_TTL.DEFAULT), the TTL of the response
ResponseTtl(prompt_data) ==
    DictGetOr(prompt_data, S_ttl_seconds, PInt(CACHE_TTL_DEFAULT)).v

----------------------------------------------------------------------------
(* Bounded inputs: template catalogs, data sources and content files *)

MaxRequests == 2   \* generate_prompt_response calls per run
MaxInits == 1      \* initialize_prompts runs per run
MaxTicks == 1      \* hours that pass per run

Callers == {"c1", "c2"}

S_x == <<"x">>
S_xs == <<"x", "s">>
S_tp == <<"tp">>
S_tq == <<"tq">>
S_bogus == <<"bogu", "s">>

\* "r:{id}" and "r:{x}"
CacheKeyById == <<"r", ":", "{", "i", "d", "}">>
CacheKeyByX == <<"r", ":", "{", "x", "}">>

Template(id, topic, title, cache_key, context_keys, more) ==
    PDict(<< <<S_id, PStr(id)>>,
             <<S_topic, PStr(topic)>>,
             <<S_title, PStr(title)>>,
             <<S_cache_key, PStr(cache_key)>>,
             <<S_context_keys, PList([i \in 1..Len(context_keys) |-> PStr(context_keys[i])])>>
          >> \o more)

Enabled == << <<S_enabled, PBool(TRUE)>> >>
TwoHours == << <<S_ttl_seconds, PInt(2 * CACHE_TTL_DEFAULT)>> >>

\* no parameter, one enrichment lookup, the default TTL
TemplatePlain ==
    Template(<<"T1">>, S_tp, <<"Q">>, CacheKeyById, <<S_get_characters>>, Enabled)
\* one parameter, no enrichment, a TTL of two hours
TemplateByX ==
    Template(<<"T2">>, S_tq, <<"Q", "{", "x", "}">>, CacheKeyByX, <<>>, Enabled \o TwoHours)
\* a second lookup that is no operation of the provider
TemplateBadContext ==
    Template(<<"T1">>, S_tp, <<"Q">>, CacheKeyById, <<S_get_characters, S_bogus>>, Enabled)
\* a topic whose content file needs a lookup the template does not list
TemplateBadContent ==
    Template(<<"T2">>, S_tp, <<"Q", "{", "x", "}">>, CacheKeyByX, <<>>, Enabled \o TwoHours)

\* a catalog keyed by topic, each topic a list of templates
CatalogByTopic(list) == << <<<<"all">>, PList(list)>> >>
\* the same, after entries that map a key straight to one template
CatalogMixed(list) ==
    [i \in 1..Len(list) |-> <<<<"flat">> \o Digits(i), list[i]>>] \o CatalogByTopic(list)

Catalogs ==
    { CatalogByTopic(<<TemplatePlain>>),
      CatalogMixed(<<TemplatePlain, TemplateByX>>),
      CatalogMixed(<<TemplateBadContext, TemplateBadContent>>) }

\* a template without one of its fields
Without(template, field) == PDict(SelectSeq(template.v, LAMBDA item : item[1] # field))

\* a template whose enabled flag is false
Disabled(template) == PDict(DictSet(template.v, S_enabled, PBool(FALSE)))

\* an entry of a topic's list that is no map
NotAMap == PStr(<<"junk">>)

\* the entries initialize_prompts has to pass over: disabled, or malformed
PassedOver ==
    {Disabled(TemplateByX), NotAMap}
    \cup {Without(TemplateByX, field) :
              field \in {S_id, S_enabled, S_title, S_topic, S_context_keys}}

\* a topic that lists one such entry ahead of a well-formed template; the
\* catalog also maps a key straight to each entry that has an id
CatalogAfter(entry) ==
    << <<<<"flat1">>, TemplatePlain>> >>
    \o (IF IsDict(entry) /\ DictHas(entry.v, S_id) THEN << <<<<"flat2">>, entry>> >>
        ELSE <<>>)
    \o CatalogByTopic(<<entry, TemplatePlain>>)

\* a template whose title names a parameter its cache key does not: "Q{x}{w}"
TemplateTitleW ==
    Template(<<"T2">>, S_tq, <<"Q", "{", "x", "}", "{", "w", "}">>, CacheKeyByX, <<>>,
             Enabled \o TwoHours)

BatchCatalogs == {CatalogAfter(entry) : entry \in PassedOver \cup {TemplateTitleW}}

\* templates that define no cache key: none at all, or an empty one
TemplateNoKey == Without(TemplatePlain, S_cache_key)
TemplateEmptyKey ==
    Template(<<"T2">>, S_tp, <<"Q">>, <<>>, <<S_get_characters, S_bogus>>, Enabled)

\* each beside a template that defines one
NoKeyCatalogs ==
    { CatalogMixed(<<TemplateNoKey, TemplateByX>>),
      CatalogMixed(<<TemplatePlain, TemplateEmptyKey>>) }

ValueA == PStr(<<"A">>)
ValueB == PStr(<<"B">>)

DataSources == { << <<S_xs, PList(<<ValueA, ValueB>>)>> >> }

\* prompt-contents/tp.txt is "{fget_characters}", prompt-contents/tq.txt "c{fx}"
ContentFiles ==
    { << <<S_tp, <<"{", "f">> \o S_get_characters \o <<"}">> >>,
         <<S_tq, <<"c", "{", "f", "x", "}">> >> >> }

\* the texts the generation service may answer with
ResponseTexts(c) == {<<>>, <<"r" \o c>>}

\* the iteration orders of a set of placeholder names
Rankings == { <<S_id, S_x>>, <<S_x, S_id>> }

----------------------------------------------------------------------------
(* The state machine *)

NoReq ==
    [template_id |-> <<>>, prompt_id |-> <<>>, cache_key |-> <<>>, context_keys |-> <<>>,
     ttl |-> 0, topic |-> <<>>, title |-> <<>>, params |-> <<>>, context_data |-> <<>>,
     response |-> <<>>]

\* gets, sets: the store operations the request issued, in order; resolved: the
\* context keys it resolved, in order; gen: its calls of the generation service;
\* found: what the store held under the response key when the request read it;
\* failed: the store operations of the request that failed; broke: the call
\* of a collaborator that failed in the request ("" while none has)
NoLog ==
    [gets |-> <<>>, sets |-> <<>>, resolved |-> <<>>, gen |-> 0, found |-> NoBytes,
     failed |-> 0, broke |-> ""]

NoOutcome == [status |-> "none", response |-> <<>>, why |-> ""]
Served(text) == [status |-> "Served", response |-> text, why |-> ""]
Failed(why) == [status |-> "Failed", response |-> <<>>, why |-> why]

\* runs: the runs of initialize_prompts so far; raised: whether the last one
\* raised; quiet: the last one had a working store and nothing has touched the
\* store or the clock since; twice: the last one began in such a quiet period;
\* before: the store it then began with; tried: the ids of the templates the
\* last one handed to generate_prompts_from_template, in order
NoInits ==
    [runs |-> 0, raised |-> FALSE, quiet |-> FALSE, twice |-> FALSE, before |-> <<>>,
     tried |-> <<>>]

\* the states a run starts in, for an environment e and a set of catalogs
InitOver(e, catalogs) ==
    /\ env = e
    /\ templates_cache \in catalogs
    /\ data_sources \in DataSources
    /\ content_files \in ContentFiles
    /\ store = <<>>
    /\ now = 0
    /\ pc = [c \in Callers |-> "idle"]
    /\ req = [c \in Callers |-> NoReq]
    /\ log = [c \in Callers |-> NoLog]
    /\ outcome = [c \in Callers |-> NoOutcome]
    /\ started = 0
    /\ inits = NoInits
    /\ fin = <<>>
    /\ fout = <<>>

\* the states a run starts in, for an environment e
InitIn(e) == InitOver(e, Catalogs)

\* a reliable Redis, MaxTicks hours, MaxInits runs of initialize_prompts and
\* MaxRequests requests
Init ==
    InitIn([flaky |-> FALSE, hours |-> MaxTicks, inits |-> MaxInits,
            requests |-> MaxRequests])

\* the same with one more run of initialize_prompts and one request fewer
InitReinit ==
    InitIn([flaky |-> FALSE, hours |-> MaxTicks, inits |-> MaxInits + 1,
            requests |-> MaxRequests - 1])

Inputs == <<templates_cache, data_sources, content_files, env, fin, fout>>

\* the store, the clock and the requests
Service == <<store, now, pc, req, log, outcome, started, inits>>

\* the ways a store operation may go: TRUE, it works; FALSE, a RedisError
Ups == IF env.flaky THEN BOOLEAN ELSE {TRUE}

\* anything but initialize_prompts that may change the store ends the quiet
\* period that follows a run of it
Disturbed == [inits EXCEPT !.quiet = FALSE]

\* the hour passes; Redis drops what has expired
Tick ==
    /\ now < env.hours * CACHE_TTL_DEFAULT
    /\ now' = now + CACHE_TTL_DEFAULT
    /\ store' = Unexpired(store, now')
    /\ inits' = Disturbed
    /\ UNCHANGED <<Inputs, pc, req, log, outcome, started>>

\* PromptService.initialize_prompts(data_sources), start to end
InitializePrompts ==
    /\ inits.runs < env.inits
    /\ \A c \in Callers : pc[c] \in {"idle", "done"}
    /\ \E rank \in Rankings, up \in Ups :
        LET done == initialize_prompts(templates_cache, data_sources, rank, store, now, up)
        IN  /\ store' = done.st
            /\ inits' = [runs |-> inits.runs + 1, raised |-> done.crashed, quiet |-> up,
                         twice |-> inits.quiet /\ up,
                         before |-> IF inits.quiet /\ up THEN store ELSE <<>>,
                         tried |-> done.tried]
    /\ UNCHANGED <<Inputs, now, pc, req, log, outcome, started>>

Finish(c, result) ==
    /\ pc' = [pc EXCEPT ![c] = "done"]
    /\ outcome' = [outcome EXCEPT ![c] = result]

\* where a request goes once it has no cached response to return: into the
\* loop of _get_api_data, which an empty context_keys leaves at once
AfterMiss(context_keys) == IF context_keys = <<>> THEN "generate" ELSE "enrich"

\* a flow that checks the cache whatever the cache key
AfterContextChecking(cache_key, context_keys) == "check_cache"

\* where a request goes once _build_context has returned: `if cache_key:`
AfterContext(cache_key, context_keys) ==
    IF cache_key # <<>> THEN "check_cache" ELSE AfterMiss(context_keys)

\* the ids of the catalog's templates, as the writer's main loop collects them
RECURSIVE ListedIds(_)
ListedIds(list) ==
    IF list = <<>> THEN {}
    ELSE (IF IsDict(list[1]) /\ DictHas(list[1].v, S_id)
              THEN {DictGet(list[1].v, S_id).v} ELSE {})
         \cup ListedIds(Tail(list))

CatalogIds(templates) ==
    UNION {ListedIds(templates[i][2].v) : i \in {i \in 1..Len(templates) : IsList(templates[i][2])}}

\* the prompt ids a caller may ask for: those of the stored Generated Prompt
\* keys of the template, those a caller was served for before (their records
\* may have expired since), and one that was never generated
PromptIds(template_id) ==
    {LastSegment(k, ":") :
        k \in {k \in DOMAIN store :
                  StartsWith(k, GENERATED_PROMPT_PREFIX \o <<":">> \o template_id \o <<":">>)}}
    \cup {req[d].prompt_id : d \in {d \in Callers : req[d].template_id = template_id}}
    \cup {<<"nope">>}

\* generate_prompt_response up to the cache check: read the Generated Prompt
\* record, decode and validate it, build the context and the cache key
ReadPromptFor(c, template_id, prompt_id, up) ==
        LET redis_key == GeneratedPromptKey(template_id, prompt_id)
            cached_prompt == get_cached_response(store, redis_key, now, up)
            decoded == JsonLoads(cached_prompt)
            prompt_data == decoded.doc.v
            valid == /\ Truthy(cached_prompt) /\ decoded.ok /\ IsDict(decoded.doc)
                     /\ \A field \in {S_topic, S_title, S_context_keys} :
                            DictHas(prompt_data, field)
            context == BuildContext(prompt_data)
            context_keys == [i \in 1..Len(DictGet(prompt_data, S_context_keys).v) |->
                                DictGet(prompt_data, S_context_keys).v[i].v]
        IN  /\ log' = [log EXCEPT ![c] = [NoLog EXCEPT !.gets = <<redis_key>>,
                                                      !.failed = IF up THEN 0 ELSE 1]]
            /\ IF ~Truthy(cached_prompt)
                   THEN /\ Finish(c, Failed("no prompt found"))
                        /\ req' = [req EXCEPT ![c] = NoReq]
               ELSE IF ~valid \/ ~context.ok
                   THEN /\ Finish(c, Failed("invalid prompt configuration"))
                        /\ req' = [req EXCEPT ![c] = NoReq]
               ELSE /\ req' = [req EXCEPT ![c] =
                          [template_id |-> template_id, prompt_id |-> prompt_id,
                           cache_key |-> context.cache_key,
                           context_keys |-> context_keys,
                           ttl |-> ResponseTtl(prompt_data),
                           topic |-> DictGet(prompt_data, S_topic).v,
                           title |-> DictGet(prompt_data, S_title).v,
                           params |-> context.params,
                           context_data |-> context.params,
                           response |-> <<>>]]
                    /\ pc' = [pc EXCEPT ![c] = AfterContext(context.cache_key, context_keys)]
                    /\ outcome' = [outcome EXCEPT ![c] = NoOutcome]

\* a call of generate_prompt_response(prompt_template_id, prompt_id)
ReadPrompt(c) ==
    /\ pc[c] \in {"idle", "done"}
    /\ started < env.requests
    /\ c = "c1" \/ pc["c1"] # "idle"   \* callers are alike: c1 is the first to call
    /\ started' = started + 1
    /\ \E template_id \in CatalogIds(templates_cache), up \in Ups :
       \E prompt_id \in PromptIds(template_id) :
           ReadPromptFor(c, template_id, prompt_id, up)
    /\ UNCHANGED <<Inputs, store, now, inits>>

\* "Check cache if available"
CheckCache(c) ==
    /\ pc[c] = "check_cache"
    /\ \E up \in Ups :
        LET cached_response == get_cached_response(store, req[c].cache_key, now, up)
        IN  /\ log' = [log EXCEPT ![c].gets = Append(@, req[c].cache_key),
                                  ![c].found = get_cached_response(store, req[c].cache_key,
                                                                   now, TRUE),
                                  ![c].failed = IF up THEN @ ELSE @ + 1]
            /\ IF CacheHit(cached_response)
                   THEN Finish(c, Served(cached_response.s))
               ELSE /\ pc' = [pc EXCEPT ![c] = AfterMiss(req[c].context_keys)]
                    /\ UNCHANGED outcome
    /\ UNCHANGED <<Inputs, store, now, req, started, inits>>

\* a flow that caches what it has when a lookup fails
AfterEnrichStoring(ok, last) ==
    IF ~ok THEN "store" ELSE IF last THEN "generate" ELSE "enrich"

\* a loop of _get_api_data that goes on after a lookup that failed
AfterEnrichSwallowing(ok, last) == IF last THEN "generate" ELSE "enrich"

\* where a request goes after one lookup of _get_api_data: a failure raises
\* out of the loop, the last success leaves it
AfterEnrich(ok, last) ==
    IF ~ok THEN "fail" ELSE IF last THEN "generate" ELSE "enrich"

\* one round of the loop of _get_api_data: resolve the next context key
Enrich(c) ==
    /\ pc[c] = "enrich"
    /\ \E up \in Ups, http \in BOOLEAN :
        LET context_key == req[c].context_keys[Len(log[c].resolved) + 1]
            got == GetContextData(context_key, store, now, up, http)
            known == context_key \in ProviderOperations
            goto == AfterEnrich(got.ok, Len(log[c].resolved) + 1 = Len(req[c].context_keys))
        IN  /\ store' = got.st
            /\ inits' = IF got.st # store THEN Disturbed ELSE inits
            /\ log' = [log EXCEPT
                   ![c].gets = IF known THEN Append(@, ApiCacheKey(context_key)) ELSE @,
                   ![c].sets = IF got.set
                                   THEN Append(@, [key |-> ApiCacheKey(context_key),
                                                   val |-> JsonBytes(ApiData),
                                                   ttl |-> EndpointTtl(context_key)])
                               ELSE @,
                   ![c].resolved = IF got.ok THEN Append(@, context_key) ELSE @,
                   ![c].failed = IF known /\ ~up THEN @ + 1 ELSE @,
                   ![c].broke = IF got.ok THEN @ ELSE "context"]
            /\ req' = [req EXCEPT ![c].context_data =
                          IF got.ok THEN DictSet(@, context_key, got.data) ELSE @]
            /\ IF goto = "fail"
                   THEN Finish(c, Failed("context resolution failed"))
               ELSE /\ pc' = [pc EXCEPT ![c] = goto]
                    /\ UNCHANGED outcome
    /\ UNCHANGED <<Inputs, now, started>>

\* a flow that caches whatever the generation call left behind
AfterGenerateStoring(answered, cache_key) ==
    IF cache_key # <<>> THEN "store" ELSE IF answered THEN "served" ELSE "fail"

\* where a request goes after OpenAIService.generate_response: its exception
\* propagates; else "Cache if cache key is available"
AfterGenerate(answered, cache_key) ==
    IF ~answered THEN "fail" ELSE IF cache_key # <<>> THEN "store" ELSE "served"

\* _build_prompt, then OpenAIService.generate_response
Generate(c) ==
    /\ pc[c] = "generate"
    /\ IF ~BuildPrompt(req[c].topic, req[c].title, req[c].context_data, content_files)
           THEN /\ Finish(c, Failed("prompt build failed"))
                /\ log' = [log EXCEPT ![c].broke = "build"]
                /\ UNCHANGED req
       ELSE \E answered \in BOOLEAN, text \in ResponseTexts(c) :
           LET goto == AfterGenerate(answered, req[c].cache_key)
           IN  /\ answered \/ text = <<>>
               /\ log' = [log EXCEPT ![c].gen = @ + 1,
                                     ![c].broke = IF answered THEN @ ELSE "generation"]
               /\ req' = [req EXCEPT ![c].response = text]
               /\ IF goto = "fail" THEN Finish(c, Failed("generation failed"))
                  ELSE IF goto = "served" THEN Finish(c, Served(text))
                  ELSE /\ pc' = [pc EXCEPT ![c] = goto]
                       /\ UNCHANGED outcome
    /\ UNCHANGED <<Inputs, store, now, started, inits>>

\* "Cache if cache key is available", and the return
StoreResponse(c) ==
    /\ pc[c] = "store"
    /\ \E up \in Ups :
        /\ store' = set_cached_response(store, req[c].cache_key, TextBytes(req[c].response),
                                        req[c].ttl, now, up)
        /\ log' = [log EXCEPT ![c].sets = Append(@, [key |-> req[c].cache_key,
                                                     val |-> TextBytes(req[c].response),
                                                     ttl |-> req[c].ttl]),
                              ![c].failed = IF up THEN @ ELSE @ + 1]
    /\ inits' = Disturbed
    /\ Finish(c, Served(req[c].response))
    /\ UNCHANGED <<Inputs, now, req, started>>

Next ==
    \/ Tick
    \/ InitializePrompts
    \/ \E c \in Callers : ReadPrompt(c)
    \/ \E c \in Callers : CheckCache(c)
    \/ \E c \in Callers : Enrich(c)
    \/ \E c \in Callers : Generate(c)
    \/ \E c \in Callers : StoreResponse(c)

Spec == Init /\ [][Next]_vars

SpecReinit == InitReinit /\ [][Next]_vars

\* a run over the catalogs that list a disabled or malformed entry
InitBatch ==
    InitOver([flaky |-> FALSE, hours |-> MaxTicks, inits |-> MaxInits,
              requests |-> MaxRequests - 1], BatchCatalogs)

SpecBatch == InitBatch /\ [][Next]_vars

\* a run over templates that define no cache key
InitNoKey ==
    InitOver([flaky |-> FALSE, hours |-> MaxTicks, inits |-> MaxInits,
              requests |-> MaxRequests - 1], NoKeyCatalogs)

SpecNoKey == InitNoKey /\ [][Next]_vars

-----------------------------------------------------------------------------
(* Properties of the cache-then-generate flow *)

\* the request of caller c read a stored, unexpired value under its response key
FoundStored(c) == log[c].found # NoBytes

\* the request of caller c returned the value it read and called neither the
\* enrichment provider nor the generation service
ReturnedStored(c) ==
    /\ pc[c] = "done"
    /\ outcome[c] = Served(log[c].found.s)
    /\ log[c].resolved = <<>>
    /\ log[c].gen = 0

\* C1: whenever a request with a non-empty cache key k reads a value stored
\* under k and not yet expired, it returns exactly that value and invokes
\* neither the enrichment provider nor the generation service.
C1_StoredValueReturned ==
    \A c \in Callers : FoundStored(c) => ReturnedStored(c)

\* C1, for the stored values that are not the empty text: these are returned
\* verbatim with no enrichment and no generation.
C1_NonEmptyValueReturned ==
    \A c \in Callers : FoundStored(c) /\ Truthy(log[c].found) => ReturnedStored(c)

\* a request read a non-empty stored response and has returned
C1_HitReached ==
    \E c \in Callers : /\ FoundStored(c) /\ Truthy(log[c].found)
                       /\ log[c].found.kind = "text" /\ pc[c] = "done"

\* the templates the catalog lists under its topics
ListedTemplates ==
    UNION {Range(templates_cache[i][2].v) :
              i \in {i \in 1..Len(templates_cache) : IsList(templates_cache[i][2])}}

\* the TTL the catalog configures for a template: its ttl_seconds, else 3600
ConfiguredTtl(template_id) ==
    LET template == CHOOSE tpl \in ListedTemplates : DictGet(tpl.v, S_id).v = template_id
    IN  IF DictHas(template.v, S_ttl_seconds) THEN DictGet(template.v, S_ttl_seconds).v
        ELSE 3600

\* the request of caller c checked its response key, found nothing stored
\* under it, and was served
ServedAfterMiss(c) ==
    /\ pc[c] = "done"
    /\ outcome[c].status = "Served"
    /\ req[c].cache_key # <<>>
    /\ log[c].found = NoBytes

\* the sets a request issued on one key, in order
SetsOn(c, key) == SelectSeq(log[c].sets, LAMBDA set : set.key = key)

SharedKeyServed(c, d) ==
    /\ c # d
    /\ now = 0
    /\ req[c].cache_key # <<>> /\ req[c].cache_key = req[d].cache_key
    /\ \A e \in {c, d} : /\ pc[e] = "done" /\ outcome[e].status = "Served"
                          /\ outcome[e].response # <<>>

\* C3 as claimed: callers whose requests share one cache key invoke the
\* generation service at most once between them while the key has not expired.
C3_OneGenerationPerKey ==
    \A c, d \in Callers : SharedKeyServed(c, d) => log[c].gen + log[d].gen <= 1

\* C3, amended: a request invokes the generation service at most once, and
\* only if its own cache check found nothing or the empty text under the key;
\* callers whose checks all precede the first store each generate.
C3_GenerationOnlyAfterOwnMiss ==
    \A c \in Callers :
        /\ log[c].gen <= 1
        /\ log[c].gen > 0 /\ req[c].cache_key # <<>> =>
               log[c].found \in {NoBytes, TextBytes(<<>>)}

\* two callers sharing a key both generated, each after its own miss
C3_BothGenerated ==
    \E c, d \in Callers :
        /\ SharedKeyServed(c, d)
        /\ log[c].gen = 1 /\ log[d].gen = 1
        /\ log[c].found = NoBytes /\ log[d].found = NoBytes

\* the keys under which the enrichment provider caches its own lookups
ProviderKeys == {ApiCacheKey(endpoint_name) : endpoint_name \in ProviderOperations}

\* the request of caller c ended in failure with the generation service never
\* invoked
EndedUngenerated(c) ==
    /\ pc[c] = "done"
    /\ outcome[c] = Failed("context resolution failed")
    /\ log[c].gen = 0

\* C4 as claimed: once a context key of a request fails to resolve, the
\* request ends in failure without generation and has issued no set at all,
\* so the store is as it was before the request.
C4_ResolutionFailureLeavesStore ==
    \A c \in Callers :
        log[c].broke = "context" => EndedUngenerated(c) /\ log[c].sets = <<>>

\* C4, amended: once a context key of a request fails to resolve, the request
\* ends in failure without generation and has issued no set on its response
\* cache key; all it may have written are the enrichment provider's own cache
\* entries of the lookups that succeeded before the failure.
C4_ResolutionFailureWritesNoResponse ==
    \A c \in Callers :
        log[c].broke = "context" =>
            /\ EndedUngenerated(c)
            /\ SetsOn(c, req[c].cache_key) = <<>>
            /\ \A i \in 1..Len(log[c].sets) :
                   /\ log[c].sets[i].key \in ProviderKeys
                   /\ \E j \in 1..Len(log[c].resolved) :
                          log[c].sets[i].key = ApiCacheKey(log[c].resolved[j])

\* a request failed on a name that is no operation of the provider, after an
\* earlier lookup had succeeded and been cached by the provider
C4_FailedAfterLookup ==
    \E c \in Callers :
        /\ log[c].broke = "context"
        /\ req[c].context_keys[Len(log[c].resolved) + 1] \notin ProviderOperations
        /\ log[c].sets # <<>>

\* the request of caller c ended in failure, its one generation call having
\* failed
EndedGenerationFailed(c) ==
    /\ pc[c] = "done"
    /\ outcome[c] = Failed("generation failed")
    /\ log[c].gen = 1

\* C5 as claimed: once the generation call of a request fails, the request
\* ends in failure and has issued no set at all: the store holds the keys and
\* values it held before the request.
C5_GenerationFailureLeavesStore ==
    \A c \in Callers :
        log[c].broke = "generation" => EndedGenerationFailed(c) /\ log[c].sets = <<>>

\* C5, amended: once the generation call of a request fails, the request
\* ends in failure and has issued no set on its response cache key; all it
\* may have written are the enrichment provider's own cache entries of its
\* context keys.
C5_GenerationFailureWritesNoResponse ==
    \A c \in Callers :
        log[c].broke = "generation" =>
            /\ EndedGenerationFailed(c)
            /\ SetsOn(c, req[c].cache_key) = <<>>
            /\ \A i \in 1..Len(log[c].sets) :
                   \E j \in 1..Len(req[c].context_keys) :
                       log[c].sets[i].key = ApiCacheKey(req[c].context_keys[j])

\* a generation call failed in a request whose enrichment had written the
\* provider's cache, and in one that had written nothing
C5_GenerationFailed ==
    /\ log["c1"].broke = "generation" /\ log["c1"].sets # <<>>
    /\ log["c2"].broke = "generation" /\ log["c2"].sets = <<>>

\* the store keys that hold Generated Responses: those that are neither
\* Generated Prompt records nor entries of the enrichment provider's cache
IsResponseKey(key) ==
    /\ key \notin ProviderKeys
    /\ ~StartsWith(key, GENERATED_PROMPT_PREFIX)

\* the keys a step writes: those whose entry is new or has changed
Written == {key \in DOMAIN store' : key \notin DOMAIN store \/ store'[key] # store[key]}

-----------------------------------------------------------------------------
(* Properties of initialization *)

\* initialize_prompts has run to its end with a working store, and nothing
\* has touched the store or the clock since
JustInitialized == inits.runs > 0 /\ inits.quiet /\ ~inits.raised

\* every entry of the catalog maps a topic to a list of templates
KeyedByTopic == \A i \in 1..Len(templates_cache) : IsList(templates_cache[i][2])

EnabledTemplates ==
    {tpl \in ListedTemplates :
        DictHas(tpl.v, S_enabled) /\ PyTruthy(DictGet(tpl.v, S_enabled))}

\* what the Combination Generator produces for a template
Combinations(template, rank) ==
    generate_param_combinations(
        TemplateDataSources(
            OrderBy(extract_template_params(DictGet(template.v, S_cache_key).v), rank),
            data_sources))

PromptKeysOf(template) ==
    {GeneratedPromptKey(DictGet(template.v, S_id).v,
                        DeriveId(DictGet(template.v, S_id).v, params)) :
        params \in UNION {Range(Combinations(template, rank)) : rank \in Rankings}}

\* the store holds a record for every enabled template and combination
AllPromptsStored ==
    \A tpl \in EnabledTemplates : \A key \in PromptKeysOf(tpl) : Live(store, key, now)

\* C7: once initialize_prompts has completed with a working store over a
\* catalog keyed by topic, each topic a list of templates, the store holds a
\* Generated Prompt record under iq:generated-prompt:<template_id>:<id> for
\* every enabled template and every combination of the Combination Generator.
C7_EveryCombinationStored ==
    JustInitialized /\ KeyedByTopic => AllPromptsStored

\* C7, for a catalog that also maps keys straight to the same templates ahead
\* of its topics: there the records are all stored.
C7_StoredWhenAlsoKeyedById ==
    JustInitialized /\ ~KeyedByTopic => AllPromptsStored /\ EnabledTemplates # {}

\* the Generated Prompt keys a store holds
PromptKeys(st) == {key \in DOMAIN st : StartsWith(key, GENERATED_PROMPT_PREFIX)}

\* the instantiation ids a store holds records of
PromptIdsIn(st) == {LastSegment(key, ":") : key \in PromptKeys(st)}

\* initialize_prompts has just run twice in a row, store working both times
RanTwiceInARow == inits.twice /\ inits.quiet

\* C8: after a second run of initialize_prompts in a row (same catalog, same
\* data sources, nothing expired in between) the store holds the Generated
\* Prompt keys, instantiation ids and records it held after the first run: the
\* second run adds no key.
C8_SecondRunAddsNothing ==
    RanTwiceInARow =>
        /\ PromptKeys(store) = PromptKeys(inits.before)
        /\ PromptIdsIn(store) = PromptIdsIn(inits.before)
        /\ DOMAIN store = DOMAIN inits.before
        /\ \A key \in PromptKeys(store) : store[key].val = inits.before[key].val

\* a second run in a row over a store that holds the records of two templates
C8_RanTwiceOverRecords ==
    /\ RanTwiceInARow
    /\ Cardinality(PromptKeys(store)) >= 3
    /\ Cardinality({DictGet(store[key].val.doc.v, S_prompt_template_id) :
                        key \in PromptKeys(store)}) = 2

-----------------------------------------------------------------------------
(* The id deriver on its own: parameter sets drawn from bounded sets *)

MaxParams == 2   \* parameters of a parameter set
MaxValues == 2   \* candidate values of a data source

S_y == <<"y">>
S_ys == <<"y", "s">>

\* "r:{x}:{y}"
CacheKeyByXY == <<"r", ":", "{", "x", "}", ":", "{", "y", "}">>

\* two parameters
TemplateByXY ==
    Template(<<"T1">>, S_tq, <<"Q", "{", "x", "}", "{", "y", "}">>, CacheKeyByXY, <<>>,
             Enabled)

ParamNames == {S_x, S_y}
ParamValues == {ValueA, ValueB, PDict(<< <<S_id, ValueA>> >>), PInt(1)}

\* dicts of at most MaxParams parameters, in every insertion order
ParamSets ==
    UNION {{params \in [1..n -> ParamNames \X ParamValues] :
               \A i, j \in 1..n : i # j => params[i][1] # params[j][1]} :
           n \in 0..MaxParams}

ValueLists == UNION {[1..n -> {ValueA, ValueB}] : n \in 0..MaxValues}

\* a data source under a key, or no such key
SourcesOf(key) == {<<>>} \cup {<< <<key, PList(values)>> >> : values \in ValueLists}

SourceSets == {xs \o ys : xs \in SourcesOf(S_xs), ys \in SourcesOf(S_ys)}

NoIds ==
    [a |-> <<>>, b |-> <<>>, sources |-> <<>>, combinations |-> <<>>, ids |-> <<>>,
     done |-> FALSE]

InitIds ==
    /\ env = [flaky |-> FALSE, hours |-> 0, inits |-> 0, requests |-> 0]
    /\ templates_cache = CatalogMixed(<<TemplateByXY>>)
    /\ content_files \in ContentFiles
    /\ store = <<>>
    /\ now = 0
    /\ pc = [c \in Callers |-> "idle"]
    /\ req = [c \in Callers |-> NoReq]
    /\ log = [c \in Callers |-> NoLog]
    /\ outcome = [c \in Callers |-> NoOutcome]
    /\ started = 0
    /\ inits = NoInits
    /\ fout = NoIds
    /\ \/ /\ data_sources = <<>>
          /\ fin \in [kind : {"pair"}, template_id : UuidTexts, p : ParamSets,
                       q : ParamSets, rank : {<<>>}]
       \/ /\ data_sources \in SourceSets
          /\ fin \in [kind : {"expand"}, template_id : {<<"T1">>}, p : {<<>>}, q : {<<>>},
                       rank : {<<S_x, S_y>>, <<S_y, S_x>>}]

\* the id of two parameter sets, for one template id
DerivePair ==
    /\ fin.kind = "pair" /\ ~fout.done
    /\ fout' = [NoIds EXCEPT !.a = DeriveId(fin.template_id, fin.p),
                             !.b = DeriveId(fin.template_id, fin.q),
                             !.done = TRUE]
    /\ UNCHANGED <<templates_cache, data_sources, content_files, env, fin, Service>>

\* the combinations of the catalog's template over the data sources, and the
\* id of each, as the loop of generate_prompts_from_template derives them
ExpandTemplate ==
    /\ fin.kind = "expand" /\ ~fout.done
    /\ LET template == get_template_by_id(templates_cache, fin.template_id).value
           template_data_sources ==
               TemplateDataSources(
                   OrderBy(extract_template_params(DictGet(template.v, S_cache_key).v),
                           fin.rank),
                   data_sources)
           param_combinations == generate_param_combinations(template_data_sources)
       IN  fout' = [NoIds EXCEPT
                       !.sources = template_data_sources,
                       !.combinations = param_combinations,
                       !.ids = [i \in 1..Len(param_combinations) |->
                                   DeriveId(fin.template_id, param_combinations[i])],
                       !.done = TRUE]
    /\ UNCHANGED <<templates_cache, data_sources, content_files, env, fin, Service>>

NextIds == DerivePair \/ ExpandTemplate

SpecIds == InitIds /\ [][NextIds]_vars

\* the multiset of the entries of a sequence
BagOf(seq) == [v \in Range(seq) |-> Cardinality({i \in DOMAIN seq : seq[i] = v})]

\* C9: for one template id, two parameter sets whose parameter identity
\* strings (the id field of a structured value, else the text of the scalar)
\* form the same multiset get the same instantiation id, in whatever order the
\* parameters are supplied.
C9_SameMultisetSameId ==
    fout.done /\ fin.kind = "pair" /\ BagOf(IdParts(fin.p)) = BagOf(IdParts(fin.q))
        => fout.a = fout.b

\* two parameter sets that list the same identity strings in different
\* orders, one of them from a structured value, got one id
C9_ReorderedSameId ==
    /\ fout.done /\ fin.kind = "pair"
    /\ BagOf(IdParts(fin.p)) = BagOf(IdParts(fin.q))
    /\ IdParts(fin.p) # IdParts(fin.q)
    /\ \E i \in 1..Len(fin.p) : IsDict(fin.p[i][2])
    /\ fout.a = fout.b

\* C10: for one template, two combinations of the Combination Generator that
\* bind a different value to at least one parameter name get different
\* instantiation ids, hence different Generated Prompt keys.
C10_DistinctCombinationsDistinctIds ==
    fout.done /\ fin.kind = "expand" =>
        \A i, j \in 1..Len(fout.combinations) :
            fout.combinations[i] # fout.combinations[j] =>
                GeneratedPromptKey(fin.template_id, fout.ids[i])
                    # GeneratedPromptKey(fin.template_id, fout.ids[j])

-----------------------------------------------------------------------------
(* Properties of the Combination Generator *)

RECURSIVE ProductOfLengths(_)
\* the product of the lengths of the candidate lists of a mapping
ProductOfLengths(sources) ==
    IF sources = <<>> THEN 1
    ELSE Len(sources[1][2].v) * ProductOfLengths(Tail(sources))

\* generate_param_combinations has been applied to fout.sources
Expanded == fout.done /\ fin.kind = "expand"

\* no candidate list of the mapping is empty
NoEmptyList(sources) == \A i \in 1..Len(sources) : sources[i][2].v # <<>>

\* C11: for every mapping from parameter names to candidate lists, lists of
\* length zero included, generate_param_combinations returns as many elements
\* as the product of the lengths of the lists; for the empty mapping, exactly
\* one: the empty parameter set.
C11_LengthIsProduct ==
    Expanded =>
        /\ Len(fout.combinations) = ProductOfLengths(fout.sources)
        /\ fout.sources = <<>> => fout.combinations = << <<>> >>

\* C11, for the mappings that hold no empty list: there the length is the
\* product.
C11_LengthIsProductOfNonEmpty ==
    Expanded /\ NoEmptyList(fout.sources) =>
        /\ Len(fout.combinations) = ProductOfLengths(fout.sources)
        /\ fout.sources = <<>> => fout.combinations = << <<>> >>

RECURSIVE NestedLoops(_)
\* the Cartesian product of a mapping in nested-loop order: the first
\* parameter in the outermost loop, the last in the innermost
NestedLoops(sources) ==
    IF sources = <<>> THEN << <<>> >>
    ELSE LET name == sources[1][1]
             values == sources[1][2].v
             inner == NestedLoops(Tail(sources))
         IN  [k \in 1..(Len(values) * Len(inner)) |->
                 << <<name, values[((k - 1) \div Len(inner)) + 1]>> >>
                 \o inner[((k - 1) % Len(inner)) + 1]]

\* a parameter set binds every name of the mapping, in order, to one of the
\* candidates of that name
BindsEvery(params, sources) ==
    /\ Len(params) = Len(sources)
    /\ \A i \in 1..Len(sources) :
           /\ params[i][1] = sources[i][1]
           /\ params[i][2] \in Range(sources[i][2].v)

\* C12: generate_param_combinations returns the Cartesian product of the
\* mapping in nested-loop order, the first supplied parameter varying slowest
\* and the last fastest, and each returned set binds every supplied name to
\* exactly one of its candidates.
C12_NestedLoopProduct ==
    Expanded =>
        /\ fout.combinations = NestedLoops(fout.sources)
        /\ \A i \in 1..Len(fout.combinations) :
               BindsEvery(fout.combinations[i], fout.sources)

\* C12, for the mappings that hold no empty list: there the result is the
\* nested-loop product and every set binds every name.
C12_NestedLoopProductOfNonEmpty ==
    Expanded /\ NoEmptyList(fout.sources) =>
        /\ fout.combinations = NestedLoops(fout.sources)
        /\ \A i \in 1..Len(fout.combinations) :
               BindsEvery(fout.combinations[i], fout.sources)

----------------------------------------------------------------------------
(* The batch operations: generate_prompts_from_template over combinations,
   generate_responses_by_template and the writer's main loop over scanned keys *)

\* the orders a SCAN may list a set of keys in
Orderings(keys) ==
    {seq \in [1..Cardinality(keys) -> keys] :
        \A i, j \in 1..Cardinality(keys) : i # j => seq[i] # seq[j]}

\* RedisService.get_keys(prefix + "*"): the lists it may return; [] on a
\* RedisError
get_keys(st, prefix, t, up) ==
    IF up THEN Orderings({key \in DOMAIN st : Live(st, key, t) /\ StartsWith(key, prefix)})
    ELSE {<<>>}

\* the ids of the templates of a topic's list, as the main loop meets them
RECURSIVE ListedInOrder(_)
ListedInOrder(list) ==
    IF list = <<>> THEN <<>>
    ELSE (IF IsDict(list[1]) /\ DictHas(list[1].v, S_id)
              THEN <<DictGet(list[1].v, S_id).v>> ELSE <<>>)
         \o ListedInOrder(Tail(list))

RECURSIVE CatalogInOrder(_)
CatalogInOrder(templates) ==
    IF templates = <<>> THEN <<>>
    ELSE (IF IsList(templates[1][2]) THEN ListedInOrder(templates[1][2].v) ELSE <<>>)
         \o CatalogInOrder(Tail(templates))

\* the pattern a batch scans for one template, up to its "*"
ScanPrefix(kind, template_id) ==
    (IF kind = "main" THEN GENERATED_PROMPT_PREFIX ELSE PROMPT_PREFIX)
    \o <<":">> \o template_id \o <<":">>

\* a loop that an item's exception ends
AfterItemStopping(status, pos, n) == IF status = "Failed" THEN n + 1 ELSE pos + 1

\* the position of a loop over scanned keys after one key: the except clause
\* logs (or appends an error entry) and the loop goes on
AfterItem(status, pos, n) == pos + 1

\* phase: "none" before the batch, "templates" between templates, "items" in
\* the loop over the keys of one template, "made" after the combinations;
\* todo: the templates still to scan; keys, pos: the scanned list and the place
\* in it; scanned: every list scanned so far, attempts: the keys handed to
\* generate_prompt_response, results: how each attempt ended
NoBatch ==
    [phase |-> "none", todo |-> <<>>, template_id |-> <<>>, keys |-> <<>>, pos |-> 0,
     scanned |-> <<>>, attempts |-> <<>>, results |-> <<>>,
     combinations |-> <<>>, prompts |-> <<>>]

\* a value of a data source that is a map without the parameter's own field
ValueNoX == PDict(<< <<S_id, ValueA>> >>)

LoopSources ==
    { << <<S_xs, PList(values)>> >> :
          values \in {<<ValueA, ValueB>>, <<ValueNoX, ValueB>>, <<ValueA, ValueNoX>>} }

\* the records get_generated_prompt leaves under
\* iq:prompt-response:<template key>:<md5 of the parameters>
PromptResponseKey(template_key, params_hash) ==
    PROMPT_PREFIX \o <<":">> \o template_key \o <<":">> \o params_hash

LoopStores ==
    { <<>>,
      set_cached_response(
          set_cached_response(<<>>, PromptResponseKey(<<"T2">>, <<"md5a">>),
                              JsonBytes(PDict(<<>>)), CACHE_TTL_DEFAULT, 0, TRUE),
          PromptResponseKey(<<"T2">>, <<"md5b">>),
          JsonBytes(PDict(<<>>)), CACHE_TTL_DEFAULT, 0, TRUE) }

InitLoops ==
    /\ env = [flaky |-> FALSE, hours |-> 0, inits |-> MaxInits, requests |-> 0]
    /\ templates_cache = CatalogMixed(<<TemplateByX, TemplatePlain>>)
    /\ data_sources \in LoopSources
    /\ content_files \in ContentFiles
    /\ store \in LoopStores
    /\ now = 0
    /\ pc = [c \in Callers |-> "idle"]
    /\ req = [c \in Callers |-> NoReq]
    /\ log = [c \in Callers |-> NoLog]
    /\ outcome = [c \in Callers |-> NoOutcome]
    /\ started = 0
    /\ inits = NoInits
    /\ fin \in [kind : {"main", "by_template", "combinations"}, template_id : {<<"T2">>},
                 rank : Rankings]
    /\ fout = NoBatch

\* main after initialize_services, or generate_responses_by_template(template_id):
\* the templates whose keys the batch will scan
StartBatch ==
    /\ fin.kind \in {"main", "by_template"}
    /\ fout.phase = "none"
    /\ inits.runs = env.inits
    /\ fout' = [fout EXCEPT !.phase = "templates",
                            !.todo = IF fin.kind = "main"
                                         THEN CatalogInOrder(templates_cache)
                                     ELSE <<fin.template_id>>]
    /\ UNCHANGED <<templates_cache, data_sources, content_files, env, fin, Service>>

\* get_keys for the next template; no key: on to the template after it
ScanTemplate ==
    /\ fout.phase = "templates"
    /\ fout.todo # <<>>
    /\ \E up \in Ups :
       \E keys \in get_keys(store, ScanPrefix(fin.kind, fout.todo[1]), now, up) :
           fout' = [fout EXCEPT !.template_id = fout.todo[1],
                                !.todo = Tail(fout.todo),
                                !.keys = keys,
                                !.pos = 1,
                                !.phase = IF keys = <<>> THEN "templates" ELSE "items",
                                !.scanned = @ \o keys]
    /\ UNCHANGED <<templates_cache, data_sources, content_files, env, fin, Service>>

\* the body of the loop over the keys: the prompt id is the last segment of
\* the key, and generate_prompt_response(template_id, prompt_id) begins
BeginItem ==
    /\ fout.phase = "items"
    /\ pc["c1"] = "idle"
    /\ fout.pos <= Len(fout.keys)
    /\ \E up \in Ups :
           ReadPromptFor("c1", fout.template_id, LastSegment(fout.keys[fout.pos], ":"), up)
    /\ fout' = [fout EXCEPT !.attempts = Append(@, fout.keys[fout.pos])]
    /\ UNCHANGED <<templates_cache, data_sources, content_files, env, fin, store, now,
                   started, inits>>

\* generate_prompt_response has returned or raised: the loop takes its result
\* and moves to the next key, or leaves the list
EndItem ==
    /\ fout.phase = "items"
    /\ pc["c1"] = "done"
    /\ LET next == AfterItem(outcome["c1"].status, fout.pos, Len(fout.keys))
       IN  fout' = [fout EXCEPT !.results = Append(@, outcome["c1"].status),
                                !.pos = next,
                                !.phase = IF next > Len(fout.keys) THEN "templates"
                                          ELSE "items"]
    /\ pc' = [pc EXCEPT !["c1"] = "idle"]
    /\ UNCHANGED <<templates_cache, data_sources, content_files, env, fin, store, now,
                   req, log, outcome, started, inits>>

\* the combinations of a template over the data sources
ParamCombinations(template, sources, rank) ==
    generate_param_combinations(
        TemplateDataSources(
            OrderBy(extract_template_params(DictGetOr(template.v, S_cache_key, PStr(<<>>)).v),
                    rank),
            sources))

\* generate_prompts_from_template(template_id, data_sources), start to end
GenerateFromTemplate ==
    /\ fin.kind = "combinations"
    /\ fout.phase = "none"
    /\ \E up \in Ups :
        LET template == get_template_by_id(templates_cache, fin.template_id).value
            generated == generate_prompts_from_template(
                             templates_cache, fin.template_id, data_sources, fin.rank,
                             store, now, up)
        IN  /\ generated.kind = "return"
            /\ fout' = [fout EXCEPT
                            !.phase = "made",
                            !.combinations =
                                ParamCombinations(template, data_sources, fin.rank),
                            !.prompts = generated.value.v]
    /\ UNCHANGED <<templates_cache, data_sources, content_files, env, fin, Service>>

NextLoops ==
    \/ InitializePrompts
    \/ StartBatch
    \/ ScanTemplate
    \/ BeginItem
    \/ \E c \in Callers : CheckCache(c)
    \/ \E c \in Callers : Enrich(c)
    \/ \E c \in Callers : Generate(c)
    \/ \E c \in Callers : StoreResponse(c)
    \/ EndItem
    \/ GenerateFromTemplate

SpecLoops == InitLoops /\ [][NextLoops]_vars

----------------------------------------------------------------------------
(* Properties of the batch over the catalog *)

\* the ids of the listed templates whose enabled flag is there and false
RECURSIVE DisabledIn(_)
DisabledIn(list) ==
    IF list = <<>> THEN {}
    ELSE (IF /\ IsDict(list[1]) /\ DictHas(list[1].v, S_id)
             /\ DictGetOr(list[1].v, S_enabled, PBool(TRUE)) = PBool(FALSE)
              THEN {DictGet(list[1].v, S_id).v} ELSE {})
         \cup DisabledIn(Tail(list))

DisabledIds(templates) ==
    UNION {DisabledIn(templates[i][2].v) :
               i \in {i \in 1..Len(templates) : IsList(templates[i][2])}}

\* the prefix of the keys of one template's Prompt Records
RecordPrefix(template_id) == GENERATED_PROMPT_PREFIX \o <<":">> \o template_id \o <<":">>

\* C13: a run of initialize_prompts hands no template whose enabled flag is
\* false to the generator, and writes no key iq:generated-prompt:<its id>:*.
C13_DisabledTemplateUntouched ==
    [][ inits'.runs > inits.runs =>
            \A template_id \in DisabledIds(templates_cache) :
                /\ template_id \notin Range(inits'.tried)
                /\ \A key \in Written : ~StartsWith(key, RecordPrefix(template_id)) ]_vars

\* a run passed over a disabled template and stored the records of the
\* template listed after it
C13_DisabledPassedOver ==
    /\ inits.runs > 0
    /\ ~inits.raised
    /\ DisabledIds(templates_cache) # {}
    /\ inits.tried # <<>>
    /\ PromptKeys(store) # {}

\* the ids of the listed templates whose enabled flag is there and true
RECURSIVE EnabledIn(_)
EnabledIn(list) ==
    IF list = <<>> THEN {}
    ELSE (IF /\ IsDict(list[1]) /\ DictHas(list[1].v, S_id)
             /\ PyTruthy(DictGetOr(list[1].v, S_enabled, PBool(FALSE)))
              THEN {DictGet(list[1].v, S_id).v} ELSE {})
         \cup EnabledIn(Tail(list))

EnabledIds(templates) ==
    UNION {EnabledIn(templates[i][2].v) :
               i \in {i \in 1..Len(templates) : IsList(templates[i][2])}}

\* C14: a run of initialize_prompts over a catalog that lists one malformed
\* entry (no map, or a map without id, enabled, title, topic or context_keys)
\* ends without an error and has handed every enabled template of the catalog
\* to the generator.
C14_MalformedEntrySkipped ==
    inits.runs > 0 =>
        /\ ~inits.raised
        /\ EnabledIds(templates_cache) \subseteq Range(inits.tried)

\* the batch over scanned keys has left its last list
BatchOver == fin.kind \in {"main", "by_template"} /\ fout.phase = "templates" /\ fout.todo = <<>>

\* the combinations whose pass through the loop body appends a prompt
Surviving(template, template_id, combinations, st, t) ==
    SelectSeq(combinations,
              LAMBDA params : GeneratePrompt(template, template_id, params, st, t, TRUE).made)

----------------------------------------------------------------------------
(* The course of one request *)

\* the steps of a request past its first: each is one external call, which
\* returns or fails
RequestStep(c) == CheckCache(c) \/ Enrich(c) \/ Generate(c) \/ StoreResponse(c)

\* one request and one run of initialize_prompts, every call of a request in
\* flight returning or failing in the end
InitLive ==
    InitIn([flaky |-> FALSE, hours |-> MaxTicks, inits |-> MaxInits,
            requests |-> MaxRequests - 1])

SpecLive == InitLive /\ [][Next]_vars /\ \A c \in Callers : WF_vars(RequestStep(c))

InFlight(c) == pc[c] \notin {"idle", "done"}

\* the place of a stage in the flow of generate_prompt_response
StageRank(stage) ==
    CASE stage = "idle" -> 0
      [] stage = "check_cache" -> 1
      [] stage = "enrich" -> 2
      [] stage = "generate" -> 3
      [] stage = "store" -> 4
      [] OTHER -> 5

\* one step keeps to the order of the stages, for caller c
StagesInOrder(c) ==
    \* a request in flight only moves forward (or resolves its next context key)
    /\ InFlight(c) /\ pc'[c] # pc[c] => StageRank(pc'[c]) > StageRank(pc[c])
    \* enrichment and generation begin after the cache check of a request that has a key
    /\ pc'[c] \in {"enrich", "generate"} /\ req'[c].cache_key # <<>> =>
           \E i \in 1..Len(log'[c].gets) : log'[c].gets[i] = req'[c].cache_key
    \* generation is invoked after the whole enrichment
    /\ log'[c].gen > log[c].gen => log[c].resolved = req[c].context_keys
    \* the response is stored after generation
    /\ pc'[c] = "store" => log'[c].gen = 1
    \* a terminal outcome stays until the caller's next request
    /\ outcome[c].status \in {"Served", "Failed"} /\ outcome'[c] # outcome[c] =>
           pc[c] = "done" /\ started' > started
    \* a request ends with one of the two outcomes, and only then has one
    /\ (pc'[c] = "done") <=> (outcome'[c].status \in {"Served", "Failed"})

\* C16: with every external call returning or failing, a request in flight
\* ends, as Served or as Failed and as one of them only, and its steps keep to
\* the order cache check, enrichment, generation, cache store.
C16_RequestEndsInOrder ==
    /\ [][\A c \in Callers : StagesInOrder(c)]_vars
    /\ \A c \in Callers : InFlight(c) ~> (pc[c] = "done")

\* a request went through every stage and was served
C16_ServedThroughEveryStage ==
    \E c \in Callers :
        /\ pc[c] = "done"
        /\ outcome[c].status = "Served"
        /\ log[c].resolved # <<>>
        /\ log[c].gen = 1
        /\ log[c].sets # <<>>
        /\ \E i \in 1..Len(log[c].gets) : log[c].gets[i] = req[c].cache_key

----------------------------------------------------------------------------
(* Requests for an instantiation without a cache key *)

\* caller c's request has read a record that yields no cache key
WithoutKey(c) == req[c].template_id # <<>> /\ req[c].cache_key = <<>>

\* no get and no set of caller c's request is on a response key
NoResponseKeyTouched(c) ==
    /\ \A i \in 1..Len(log[c].gets) : ~IsResponseKey(log[c].gets[i]) /\ log[c].gets[i] # <<>>
    /\ \A i \in 1..Len(log[c].sets) :
           ~IsResponseKey(log[c].sets[i].key) /\ log[c].sets[i].key # <<>>

\* the claim as it stands: such a request always enriches, generates and
\* returns the generated text
C17_NoKeyAlwaysGenerates ==
    \A c \in Callers :
        WithoutKey(c) =>
            /\ pc[c] \notin {"check_cache", "store"}
            /\ NoResponseKeyTouched(c)
            /\ pc[c] = "done" =>
                   /\ log[c].resolved = req[c].context_keys
                   /\ log[c].gen = 1
                   /\ outcome[c] = Served(req[c].response)

\* C17: a request whose record yields no cache key (none, or an empty one)
\* never checks or writes the response cache and issues no get and no set on
\* a response key; it ends Served only with the text of its own generation
\* call, made after every context key was resolved, and ends Failed only
\* because a lookup, the prompt build or the generation call failed.
C17_NoKeyNeverCached ==
    \A c \in Callers :
        WithoutKey(c) =>
            /\ pc[c] \notin {"check_cache", "store"}
            /\ NoResponseKeyTouched(c)
            /\ pc[c] = "done" /\ outcome[c].status = "Served" =>
                   /\ log[c].resolved = req[c].context_keys
                   /\ log[c].gen = 1
                   /\ outcome[c] = Served(req[c].response)
            /\ pc[c] = "done" /\ outcome[c].status = "Failed" =>
                   log[c].broke \in {"context", "build", "generation"}

\* a request without a cache key was served the text it generated
C17_ServedWithoutKey ==
    \E c \in Callers :
        /\ WithoutKey(c)
        /\ pc[c] = "done"
        /\ outcome[c].status = "Served"
        /\ outcome[c].response # <<>>
        /\ log[c].resolved # <<>>

----------------------------------------------------------------------------
(* The Template Formatter and its validation on their own: template strings
   and parameter structures drawn from bounded sets *)

MaxPieces == 3   \* pieces of a template string

S_z == <<"z">>

\* {name}
Placeholder(name) == <<"{">> \o name \o <<"}">>

\* what a template string is put together from: text, placeholders, and the
\* doubled braces that stand for a brace
Pieces == {<<"a">>, Placeholder(S_x), Placeholder(S_y), <<"{", "{">>, <<"}", "}">>}

PieceLists == UNION {[1..n -> Pieces] : n \in 0..MaxPieces}

RECURSIVE Joined(_)
Joined(pieces) == IF pieces = <<>> THEN <<>> ELSE pieces[1] \o Joined(Tail(pieces))

\* the names in the placeholders of a list of pieces
Placeholders(pieces) ==
    {name \in {S_x, S_y} : \E i \in 1..Len(pieces) : pieces[i] = Placeholder(name)}

\* parameter structures: empty, flat, nested in a dict, nested in a list of
\* dicts, and a dict under its own name
ParamStructures ==
    { <<>>,
      << <<S_x, ValueA>> >>,
      << <<S_x, ValueA>>, <<S_y, ValueB>> >>,
      << <<S_z, PDict(<< <<S_x, ValueA>> >>)>> >>,
      << <<S_z, PList(<<PDict(<< <<S_y, ValueB>> >>)>>)>> >>,
      << <<S_x, PDict(<< <<S_x, ValueA>> >>)>>, <<S_y, PInt(1)>> >> }

NoUtils == [done |-> FALSE, result |-> FmtOk(<<>>), valid |-> PNone]

InitUtils ==
    /\ env = [flaky |-> FALSE, hours |-> 0, inits |-> 0, requests |-> 0]
    /\ templates_cache = <<>>
    /\ data_sources = <<>>
    /\ content_files \in ContentFiles
    /\ store = <<>>
    /\ now = 0
    /\ pc = [c \in Callers |-> "idle"]
    /\ req = [c \in Callers |-> NoReq]
    /\ log = [c \in Callers |-> NoLog]
    /\ outcome = [c \in Callers |-> NoOutcome]
    /\ started = 0
    /\ inits = NoInits
    /\ fin \in [kind : {"format", "validate"}, pieces : PieceLists, params : ParamStructures]
    /\ fout = NoUtils

\* format_template_with_nested_params(template_str, params)
FormatTemplate ==
    /\ fin.kind = "format" /\ ~fout.done
    /\ fout' = [NoUtils EXCEPT
                    !.result = format_template_with_nested_params(Joined(fin.pieces),
                                                                  fin.params),
                    !.done = TRUE]
    /\ UNCHANGED <<templates_cache, data_sources, content_files, env, fin, Service>>

\* validate_template_params(template_str, params): what it returns
ValidateTemplate ==
    /\ fin.kind = "validate" /\ ~fout.done
    /\ fout' = [NoUtils EXCEPT
                    !.valid = PBool(validate_template_params(Joined(fin.pieces), fin.params)),
                    !.done = TRUE]
    /\ UNCHANGED <<templates_cache, data_sources, content_files, env, fin, Service>>

NextUtils == FormatTemplate \/ ValidateTemplate

SpecUtils == InitUtils /\ [][NextUtils]_vars

\* the placeholders of the template string that the resolver does not find
Missing == {name \in Placeholders(fin.pieces) :
               ~find_param_in_dict(name, PDict(fin.params)).found}

\* C18: when some placeholder of the template string is found nowhere in the
\* parameter structure, format_template_with_nested_params returns no string:
\* it fails with a KeyError that names a placeholder that was not found.
C18_UnresolvedPlaceholderFails ==
    fout.done /\ fin.kind = "format" /\ Missing # {} =>
        /\ ~fout.result.ok
        /\ fout.result.err = "KeyError"
        /\ fout.result.name \in Missing

\* what holds instead: such a call returns no string; it fails with a KeyError
\* that names a placeholder of the template string
C18_UnresolvedNeverFormatted ==
    fout.done /\ fin.kind = "format" /\ Missing # {} =>
        /\ ~fout.result.ok
        /\ fout.result.err = "KeyError"
        /\ fout.result.name \in Placeholders(fin.pieces)

\* C19: validate_template_params returns a pair of a boolean and the list of
\* the missing names: the list holds exactly the placeholders the resolver does
\* not find, and the boolean is true exactly when the list is empty.
C19_ReturnsBooleanAndMissing ==
    fout.done /\ fin.kind = "validate" =>
        /\ fout.valid.t = "l"
        /\ Len(fout.valid.v) = 2
        /\ fout.valid.v[1] = PBool(Missing = {})
        /\ fout.valid.v[2].t = "l"
        /\ {fout.valid.v[2].v[i].v : i \in 1..Len(fout.valid.v[2].v)} = Missing

\* what holds instead: it returns a boolean alone, false exactly when some
\* placeholder of a template string without doubled braces is not found
C19_ReturnsBooleanOnly ==
    fout.done /\ fin.kind = "validate" =>
        /\ fout.valid.t = "b"
        /\ (\A i \in 1..Len(fin.pieces) : fin.pieces[i] \notin {<<"{", "{">>, <<"}", "}">>})
               => (fout.valid.v <=> Missing = {})

----------------------------------------------------------------------------
(* Combinations that lack a parameter of the title *)

\* the well-formed templates of a topic's list
RECURSIVE WellFormedIn(_)
WellFormedIn(list) ==
    IF list = <<>> THEN {}
    ELSE (IF /\ IsDict(list[1])
             /\ \A field \in {S_id, S_title, S_topic, S_context_keys, S_enabled} :
                    DictHas(list[1].v, field)
              THEN {list[1]} ELSE {})
         \cup WellFormedIn(Tail(list))

WellFormedTemplates(templates) ==
    UNION {WellFormedIn(templates[i][2].v) :
               i \in {i \in 1..Len(templates) : IsList(templates[i][2])}}

\* the combination binds no value to some placeholder of the template's title
LacksTitleParam(template, params) ==
    \E name \in extract_template_params(DictGet(template.v, S_title).v) :
        ~FormatParams(params).ok \/ ~DictHas(FormatParams(params).d, name)

\* C20: a run of initialize_prompts writes no Generated Prompt record for a
\* combination whose parameter set lacks a placeholder named in the title of
\* its template.
C20_TitleFailureWritesNoRecord ==
    [][ inits'.runs > inits.runs =>
            \A template \in WellFormedTemplates(templates_cache), rank \in Rankings :
                LET template_id == DictGet(template.v, S_id).v
                    combinations == ParamCombinations(template, data_sources, rank)
                IN  \A i \in 1..Len(combinations) :
                        LacksTitleParam(template, combinations[i]) =>
                            GeneratedPromptKey(template_id,
                                               DeriveId(template_id, combinations[i]))
                                \notin Written ]_vars

\* a run handed over a template whose title asks for a parameter that no
\* combination has, stored none of its records, and stored those of the
\* template after it
C20_TitleParamLacking ==
    /\ inits.runs > 0
    /\ \E template \in WellFormedTemplates(templates_cache) :
           /\ S_x \in extract_template_params(DictGet(template.v, S_title).v)
           /\ \A i \in 1..Len(ParamCombinations(template, data_sources, <<S_id, S_x>>)) :
                  LacksTitleParam(template,
                                  ParamCombinations(template, data_sources, <<S_id, S_x>>)[i])
           /\ DictGet(template.v, S_id).v \in Range(inits.tried)
           /\ \A key \in DOMAIN store :
                  ~StartsWith(key, RecordPrefix(DictGet(template.v, S_id).v))
    /\ PromptKeys(store) # {}

----------------------------------------------------------------------------
(* The resolver, the placeholder extraction and the formatter on texts and
   parameter structures of every shape *)

MaxLen == 4   \* characters of a text

\* the maps found inside a parameter structure
InnerMaps ==
    { << <<S_x, ValueA>> >>,
      << <<S_z, ValueB>> >>,
      << <<S_x, PDict(<< <<S_x, ValueB>> >>)>> >>,
      << <<S_z, PDict(<< <<S_x, ValueA>> >>)>> >> }

\* the values of its entries: a scalar, a map, a list with a map in it, and a
\* list of a list
FindValues ==
    {ValueA}
    \cup {PDict(m) : m \in InnerMaps}
    \cup {PList(<<PDict(m)>>) : m \in InnerMaps}
    \cup {PList(<<ValueB, PDict(m)>>) : m \in InnerMaps}
    \cup {PList(<<PList(<<PDict(m)>>)>>) : m \in InnerMaps}

\* parameter structures of at most MaxParams entries, in every order
FindStructures ==
    UNION {{d \in [1..n -> {S_x, S_y, S_z} \X FindValues] :
               \A i, j \in 1..n : i # j => d[i][1] # d[j][1]} :
           n \in 0..MaxParams}

\* texts of at most MaxLen characters, braces among them
Texts == UNION {[1..n -> {"{", "}", "x", "a"}] : n \in 0..MaxLen}

\* the parameter structures a text is formatted with
TextParams ==
    ParamStructures \cup { << <<S_x, PDict(<< <<S_id, ValueA>> >>)>> >> }

NoText == [done |-> FALSE, found |-> NotFound, names |-> {}, result |-> FmtOk(<<>>)]

InitText ==
    /\ env = [flaky |-> FALSE, hours |-> 0, inits |-> 0, requests |-> 0]
    /\ templates_cache = <<>>
    /\ data_sources = <<>>
    /\ content_files \in ContentFiles
    /\ store = <<>>
    /\ now = 0
    /\ pc = [c \in Callers |-> "idle"]
    /\ req = [c \in Callers |-> NoReq]
    /\ log = [c \in Callers |-> NoLog]
    /\ outcome = [c \in Callers |-> NoOutcome]
    /\ started = 0
    /\ inits = NoInits
    /\ \/ fin \in [kind : {"find"}, name : {S_x, S_y}, text : {<<>>}, params : FindStructures]
       \/ fin \in [kind : {"extract"}, name : {<<>>}, text : Texts, params : {<<>>}]
       \/ fin \in [kind : {"format"}, name : {<<>>}, text : Texts, params : TextParams]
    /\ fout = NoText

\* find_param_in_dict(param_name, data_dict)
FindParam ==
    /\ fin.kind = "find" /\ ~fout.done
    /\ fout' = [NoText EXCEPT !.found = find_param_in_dict(fin.name, PDict(fin.params)),
                              !.done = TRUE]
    /\ UNCHANGED <<templates_cache, data_sources, content_files, env, fin, Service>>

\* extract_template_params(template_str)
ExtractParams ==
    /\ fin.kind = "extract" /\ ~fout.done
    /\ fout' = [NoText EXCEPT !.names = extract_template_params(fin.text), !.done = TRUE]
    /\ UNCHANGED <<templates_cache, data_sources, content_files, env, fin, Service>>

\* format_template_with_nested_params(template_str, params)
FormatText ==
    /\ fin.kind = "format" /\ ~fout.done
    /\ fout' = [NoText EXCEPT
                    !.result = format_template_with_nested_params(fin.text, fin.params),
                    !.done = TRUE]
    /\ UNCHANGED <<templates_cache, data_sources, content_files, env, fin, Service>>

NextText == FindParam \/ ExtractParams \/ FormatText

SpecText == InitText /\ [][NextText]_vars

\* C21: when the name is a direct key of the parameter structure, the resolver
\* returns found with the value under it, or, when that value is a map that
\* has the name as a key, with the value under the inner name, one level and
\* no more; what the entries declared before it hold makes no difference.
C21_DirectKeyWins ==
    fout.done /\ fin.kind = "find" /\ DictHas(fin.params, fin.name) =>
        LET direct == DictGet(fin.params, fin.name)
        IN  /\ fout.found.found
            /\ fout.found.value =
                   (IF direct.t = "d" /\ DictHas(direct.v, fin.name)
                        THEN DictGet(direct.v, fin.name)
                    ELSE direct)

\* the resolver was given a name whose direct value is a map holding, under
\* the same name, a map that holds the name again, declared after an entry in
\* which the name is nested
C21_UnwrappedOneLevel ==
    /\ fout.done /\ fin.kind = "find"
    /\ Len(fin.params) = 2
    /\ fin.params[2][1] = fin.name
    /\ fin.params[1][2] = PDict(<< <<S_z, PDict(<< <<S_x, ValueA>> >>)>> >>)
    /\ fin.params[2][2] = PDict(<< <<S_x, PDict(<< <<S_x, ValueB>> >>)>> >>)
    /\ fout.found = Found(PDict(<< <<S_x, ValueB>> >>))

\* the maps of a parameter structure that can be reached through map-valued
\* entries and through the map elements of list-valued entries, each ahead of
\* those inside it and in the order of declaration
RECURSIVE MapsInOrder(_)
RECURSIVE MapsOfEntries(_)
RECURSIVE MapsOfItems(_)
MapsOfItems(items) ==
    IF items = <<>> THEN <<>>
    ELSE (IF items[1].t = "d" THEN MapsInOrder(items[1].v) ELSE <<>>)
         \o MapsOfItems(Tail(items))

MapsOfEntries(pairs) ==
    IF pairs = <<>> THEN <<>>
    ELSE (CASE pairs[1][2].t = "d" -> MapsInOrder(pairs[1][2].v)
            [] pairs[1][2].t = "l" -> MapsOfItems(pairs[1][2].v)
            [] OTHER -> <<>>)
         \o MapsOfEntries(Tail(pairs))

MapsInOrder(d) == <<d>> \o MapsOfEntries(d)

\* C22: when the name is no direct key, the resolver returns not-found exactly
\* when no map reachable through maps and lists of maps has the name as a key,
\* and otherwise the match in the first such map, taken depth first and in
\* declaration order.
C22_FirstBranchDepthFirst ==
    fout.done /\ fin.kind = "find" /\ ~DictHas(fin.params, fin.name) =>
        LET holders == SelectSeq(MapsInOrder(fin.params),
                                 LAMBDA m : \E i \in 1..Len(m) : m[i][1] = fin.name)
        IN  IF holders = <<>> THEN ~fout.found.found
            ELSE LET first == holders[1]
                     inner == first[CHOOSE i \in 1..Len(first) : first[i][1] = fin.name][2]
                 IN  /\ fout.found.found
                     /\ fout.found.value =
                            (IF inner.t = "d" /\ \E i \in 1..Len(inner.v) :
                                                     inner.v[i][1] = fin.name
                                 THEN inner.v[CHOOSE i \in 1..Len(inner.v) :
                                                  inner.v[i][1] = fin.name][2]
                             ELSE inner)

\* the name was nested in two branches, deeper in the first than in the
\* second, and the resolver returned the match of the first
C22_DeeperFirstBranch ==
    /\ fout.done /\ fin.kind = "find" /\ fin.name = S_x
    /\ fin.params = << <<S_z, PDict(<< <<S_z, PDict(<< <<S_x, ValueA>> >>)>> >>)>>,
                       <<S_y, PList(<<ValueB, PDict(<< <<S_x, PDict(<< <<S_x, ValueB>> >>)>> >>)>>)>> >>
    /\ fout.found = Found(ValueA)

\* the names of the well-formed markers of a text: what stands between an
\* opening brace and the next closing brace, when that is not empty and holds
\* no brace
WellFormedNames(text) ==
    {SubSeq(text, i + 1, j - 1) :
        <<i, j>> \in {<<i, j>> \in (1..Len(text)) \X (1..Len(text)) :
                         /\ i + 1 < j
                         /\ text[i] = "{" /\ text[j] = "}"
                         /\ \A k \in (i + 1)..(j - 1) : text[k] \notin {"{", "}"}}}

\* C23: extract_template_params returns exactly the names of the well-formed
\* markers of the text; an opening brace followed by another opening brace
\* ahead of the closing one contributes no name.
C23_OnlyWellFormedMarkers ==
    fout.done /\ fin.kind = "extract" => fout.names = WellFormedNames(fin.text)

\* what holds instead: it does so for the texts in which no opening brace
\* stands between an opening brace and the next closing one
C23_WellFormedWhenNotNested ==
    fout.done /\ fin.kind = "extract"
    /\ (\A i \in 1..Len(fin.text) : \A j \in (i + 1)..Len(fin.text) :
           fin.text[i] = "{" /\ fin.text[j] = "{" =>
               \E k \in (i + 1)..(j - 1) : fin.text[k] = "}")
        => fout.names = WellFormedNames(fin.text)

\* the parameter structure satisfies every placeholder of the text, and the
\* text has been formatted with it
Satisfied ==
    /\ fout.done /\ fin.kind = "format"
    /\ validate_template_params(fin.text, fin.params)
    /\ fout.result.ok

\* C24: a text formatted with a parameter structure that satisfies all its
\* placeholders holds no marker: extract_template_params of the result is the
\* empty set.
C24_NoMarkerAfterFormatting ==
    Satisfied => extract_template_params(fout.result.v) = {}

\* what holds instead: it is so when every placeholder resolves to a value
\* that is no map and the text doubles no brace
C24_NoMarkerForScalars ==
    ( /\ Satisfied
      /\ \A name \in extract_template_params(fin.text) :
             find_param_in_dict(name, PDict(fin.params)).value.t # "d"
      /\ \A i \in 1..(Len(fin.text) - 1) :
             ~(fin.text[i] \in {"{", "}"} /\ fin.text[i] = fin.text[i + 1]) )
    => extract_template_params(fout.result.v) = {}

\* a text from which no placeholder name is extracted has been formatted
Formatted ==
    fout.done /\ fin.kind = "format" /\ extract_template_params(fin.text) = {}

\* C25: for a text from which extract_template_params returns the empty set,
\* format_template_with_nested_params succeeds whatever the parameter
\* structure is.
C25_NoPlaceholderAlwaysFormats ==
    Formatted => fout.result.ok

\* what holds instead: such a text fails only on a brace, never for the lack
\* of a parameter, and a text without braces is returned as it is
C25_FailsOnlyOnBraces ==
    Formatted =>
        /\ ~fout.result.ok =>
              /\ fout.result.err \in {"ValueError", "IndexError"}
              /\ \E i \in 1..Len(fin.text) : fin.text[i] \in {"{", "}"}
        /\ (\A i \in 1..Len(fin.text) : fin.text[i] \notin {"{", "}"}) =>
              fout.result.ok /\ fout.result.v = fin.text

----------------------------------------------------------------------------
(* Cache keys whose placeholder has no data source *)

\* "r:{z}": no data source is named z or zs
CacheKeyByZ == <<"r", ":", "{", "z", "}">>
TemplateByZ ==
    Template(<<"T1">>, S_tp, <<"Q">>, CacheKeyByZ, <<S_get_characters>>, Enabled)

SourcelessCatalogs ==
    { CatalogMixed(<<TemplateByZ>>),
      CatalogMixed(<<TemplateByZ, TemplateByX>>) }

InitSourceless ==
    InitOver([flaky |-> FALSE, hours |-> MaxTicks, inits |-> MaxInits,
              requests |-> MaxRequests - 1], SourcelessCatalogs)

SpecSourceless == InitSourceless /\ [][Next]_vars

\* the Generated Prompt records the store holds
Records == {store[key].val.doc : key \in PromptKeys(store)}

\* the template a record was generated from
TemplateOf(record) ==
    CHOOSE tpl \in ListedTemplates :
        DictGet(tpl.v, S_id) = DictGet(record.v, S_prompt_template_id)

DefinesCacheKey(tpl) == DictGetOr(tpl.v, S_cache_key, PStr(<<>>)).v # <<>>

FullySubstituted(text) == text # <<>> /\ extract_template_params(text) = {}

\* C26: every Generated Prompt record that initialization persists for a
\* template defining a cache_key carries a cache_key that is non-empty and
\* holds no marker, also when a placeholder of the cache_key has no data
\* source.
C26_RecordKeyFullySubstituted ==
    \A record \in Records :
        DefinesCacheKey(TemplateOf(record)) =>
            FullySubstituted(DictGet(record.v, S_cache_key).v)

\* what holds instead: the cache_key of a record is empty or fully
\* substituted, and it is empty only when a placeholder of the template's
\* cache_key is neither id nor the name of a data source
C26_RecordKeyEmptyOrSubstituted ==
    \A record \in Records :
        LET cache_key == DictGet(record.v, S_cache_key).v
            template_key == DictGet(TemplateOf(record).v, S_cache_key).v
        IN  /\ cache_key = <<>> \/ FullySubstituted(cache_key)
            /\ cache_key = <<>> =>
                   \E name \in extract_template_params(template_key) :
                       /\ name # S_id
                       /\ ~DictHas(data_sources, name)
                       /\ ~DictHas(data_sources, name \o <<"s">>)

----------------------------------------------------------------------------
(* services/redis_service.py: what each operation hands back to its caller *)

MaxOps == 3   \* operations on the adapter per run

\* a RedisError leaves the operation
Rethrown(absence) == Raised

\* except redis.RedisError: the error is logged and the absence value returned
Caught(absence) == Returned(absence)

\* return self.redis_client.get(cache_key)
GetReturn(st, key, t, up) ==
    IF up THEN Returned(get_cached_response(st, key, t, TRUE)) ELSE Caught(NoBytes)

\* return self.redis_client.setex(...): Redis answers a ttl that is not
\* positive with an error, a RedisError too
SetReturn(ttl, up) ==
    IF up /\ ttl > 0 THEN Returned(PBool(TRUE)) ELSE Caught(PBool(FALSE))

\* self.redis_client.delete(cache_key)
delete_cached_response(st, key, up) ==
    IF up THEN [k \in DOMAIN st \ {key} |-> st[k]] ELSE st

DeleteReturn(up) == IF up THEN Returned(PBool(TRUE)) ELSE Caught(PBool(FALSE))

\* the lists get_keys may return
ScanReturns(st, prefix, t, up) ==
    IF up THEN {Returned(PList([i \in 1..Len(keys) |-> PStr(keys[i])])) :
                    keys \in get_keys(st, prefix, t, TRUE)}
    ELSE {Caught(PList(<<>>))}

AdapterKeys == {<<"k", "1">>, <<"k", "2">>}
AdapterValues == {TextBytes(<<"v">>), TextBytes(<<"w">>)}
AdapterTtls == {0, CACHE_TTL_DEFAULT}

NoOp == [ops |-> 0, op |-> "none", up |-> TRUE, ret |-> Returned(PNone)]

InitAdapter ==
    /\ env = [flaky |-> TRUE, hours |-> 0, inits |-> 0, requests |-> 0]
    /\ templates_cache = <<>>
    /\ data_sources = <<>>
    /\ content_files \in ContentFiles
    /\ store = <<>>
    /\ now = 0
    /\ pc = [c \in Callers |-> "idle"]
    /\ req = [c \in Callers |-> NoReq]
    /\ log = [c \in Callers |-> NoLog]
    /\ outcome = [c \in Callers |-> NoOutcome]
    /\ started = 0
    /\ inits = NoInits
    /\ fin = [kind |-> "adapter"]
    /\ fout = NoOp

Op(name, up, ret) == [ops |-> fout.ops + 1, op |-> name, up |-> up, ret |-> ret]

AdapterRest == <<templates_cache, data_sources, content_files, env, fin,
                 now, pc, req, log, outcome, started, inits>>

GetCachedResponse ==
    /\ fout.ops < MaxOps
    /\ \E key \in AdapterKeys, up \in Ups :
           fout' = Op("get", up, GetReturn(store, key, now, up))
    /\ UNCHANGED <<store, AdapterRest>>

SetCachedResponse ==
    /\ fout.ops < MaxOps
    /\ \E key \in AdapterKeys, val \in AdapterValues, ttl \in AdapterTtls, up \in Ups :
           /\ store' = set_cached_response(store, key, val, ttl, now, up)
           /\ fout' = Op("set", up /\ ttl > 0, SetReturn(ttl, up))
    /\ UNCHANGED AdapterRest

DeleteCachedResponse ==
    /\ fout.ops < MaxOps
    /\ \E key \in AdapterKeys, up \in Ups :
           /\ store' = delete_cached_response(store, key, up)
           /\ fout' = Op("delete", up, DeleteReturn(up))
    /\ UNCHANGED AdapterRest

GetKeys ==
    /\ fout.ops < MaxOps
    /\ \E up \in Ups : \E ret \in ScanReturns(store, <<"k">>, now, up) :
           fout' = Op("scan", up, ret)
    /\ UNCHANGED <<store, AdapterRest>>

NextAdapter == GetCachedResponse \/ SetCachedResponse \/ DeleteCachedResponse \/ GetKeys

SpecAdapter == InitAdapter /\ [][NextAdapter]_vars

\* the value each operation stands for "nothing" with
Absence(op) ==
    CASE op = "get" -> NoBytes
      [] op = "set" -> PBool(FALSE)
      [] op = "delete" -> PBool(FALSE)
      [] op = "scan" -> PList(<<>>)

----------------------------------------------------------------------------
(* Serving over a store that may fail at any operation *)

InitFlaky ==
    InitIn([flaky |-> TRUE, hours |-> MaxTicks, inits |-> MaxInits,
            requests |-> MaxRequests - 1])

SpecFlaky == InitFlaky /\ [][Next]_vars

\* this step ends a request of c in which a store operation failed and no
\* collaborator did, over a record that the store holds and that is sound
EndsAfterStoreFailure(c) ==
    /\ pc'[c] = "done"
    /\ pc[c] # "done" \/ started' > started
    /\ log'[c].failed > 0
    /\ log'[c].broke = ""
    /\ Live(store, log'[c].gets[1], now)
    /\ outcome'[c].why # "invalid prompt configuration"

\* C28: a store failure in any store operation of a request (the read of the
\* Generated Prompt record, the read of the response key, the write of the
\* response) never makes generate_prompt_response fail: the request ends
\* Served.
C28_StoreFailureNeverFails ==
    [][ \A c \in Callers :
            EndsAfterStoreFailure(c) => outcome'[c].status = "Served" ]_vars

\* what holds instead: a failure of the read of the response key or of the
\* write of the response leaves the request Served, and a request that fails
\* after a store failure failed at the read of its record, as one without a
\* record does
C28_FailsOnlyAtRecordRead ==
    [][ \A c \in Callers :
            EndsAfterStoreFailure(c) =>
                IF pc[c] \in {"idle", "done"}
                    THEN outcome'[c] = Failed("no prompt found")
                ELSE outcome'[c].status = "Served" ]_vars

\* a request was served although one of its store operations failed
C28_ServedDespiteFailure ==
    \E c \in Callers :
        pc[c] = "done" /\ log[c].failed > 0 /\ outcome[c].status = "Served"

----------------------------------------------------------------------------
(* Requests for an instantiation the store holds no record of *)

\* this step is c's call of generate_prompt_response for a (template id,
\* prompt id) under which the store holds no Generated Prompt record
CallsWithoutRecord(c) ==
    /\ started' > started
    /\ log'[c] # log[c] \/ outcome'[c] # outcome[c] \/ pc'[c] # pc[c]
    /\ Len(log'[c].gets) = 1
    /\ ~Live(store, log'[c].gets[1], now)

\* C29: when the store holds no Generated Prompt record for the requested
\* (template id, prompt id), generate_prompt_response reports the absence to
\* its caller as a value: no exception leaves it.
C29_AbsenceNotRaised ==
    [][ \A c \in Callers :
            CallsWithoutRecord(c) => outcome'[c].status # "Failed" ]_vars

\* what holds instead: the call raises the ValueError "No prompt found", and
\* has written nothing and generated nothing by then
C29_AbsenceRaisesNotFound ==
    [][ \A c \in Callers :
            CallsWithoutRecord(c) =>
                /\ outcome'[c] = Failed("no prompt found")
                /\ pc'[c] = "done"
                /\ store' = store
                /\ log'[c].gen = 0 /\ log'[c].sets = <<>> ]_vars

----------------------------------------------------------------------------
(* RedisService() called from several threads: __new__ and __init__, one
   statement at a time *)

MaxBuilds == 2   \* calls of RedisService() per thread

\* instance: RedisService._instance, 0 for None, else the index of the object
\* in objs; objs: the objects made so far, each with its _initialized
\* attribute ("unset" until it is first assigned) and its redis_client (0
\* until assigned); clients: the calls of redis.Redis so far; self: the object
\* each thread's __new__ returned; got: the objects that calls of
\* RedisService() have returned; builds: the calls each thread has begun;
\* overlapped: a call has begun while another thread was inside one
NoBuilds ==
    [instance |-> 0, objs |-> <<>>, clients |-> 0,
     self |-> [c \in Callers |-> 0], got |-> {},
     builds |-> [c \in Callers |-> 0], overlapped |-> FALSE]

InitBuilds ==
    /\ env = [flaky |-> FALSE, hours |-> 0, inits |-> 0, requests |-> 0]
    /\ templates_cache = <<>>
    /\ data_sources = <<>>
    /\ content_files \in ContentFiles
    /\ store = <<>>
    /\ now = 0
    /\ pc = [c \in Callers |-> "idle"]
    /\ req = [c \in Callers |-> NoReq]
    /\ log = [c \in Callers |-> NoLog]
    /\ outcome = [c \in Callers |-> NoOutcome]
    /\ started = 0
    /\ inits = NoInits
    /\ fin = [kind |-> "construct"]
    /\ fout = NoBuilds

BuildsRest == <<templates_cache, data_sources, content_files, env, fin,
                store, now, req, log, outcome, started, inits>>

Outside(c) == pc[c] \in {"idle", "done", "raised"}

\* if cls._instance is None:
NewCheck(c) ==
    /\ Outside(c)
    /\ fout.builds[c] < MaxBuilds
    /\ fout' = [fout EXCEPT !.builds[c] = @ + 1,
                            !.overlapped = @ \/ \E d \in Callers \ {c} : ~Outside(d)]
    /\ pc' = [pc EXCEPT ![c] = IF fout.instance = 0 THEN "new_alloc" ELSE "new_return"]
    /\ UNCHANGED BuildsRest

\* cls._instance = super(RedisService, cls).__new__(cls)
NewAlloc(c) ==
    /\ pc[c] = "new_alloc"
    /\ fout' = [fout EXCEPT !.objs = Append(@, [initialized |-> "unset", client |-> 0]),
                            !.instance = Len(fout.objs) + 1]
    /\ pc' = [pc EXCEPT ![c] = "new_flag"]
    /\ UNCHANGED BuildsRest

\* cls._instance._initialized = False
NewFlag(c) ==
    /\ pc[c] = "new_flag"
    /\ fout' = [fout EXCEPT !.objs[fout.instance].initialized = "False"]
    /\ pc' = [pc EXCEPT ![c] = "new_return"]
    /\ UNCHANGED BuildsRest

\* return cls._instance
NewReturn(c) ==
    /\ pc[c] = "new_return"
    /\ fout' = [fout EXCEPT !.self[c] = fout.instance]
    /\ pc' = [pc EXCEPT ![c] = "init_check"]
    /\ UNCHANGED BuildsRest

\* if self._initialized: return (an AttributeError while the attribute has
\* not been assigned)
InitCheck(c) ==
    /\ pc[c] = "init_check"
    /\ LET state == fout.objs[fout.self[c]].initialized
       IN  /\ pc' = [pc EXCEPT ![c] = CASE state = "unset" -> "raised"
                                        [] state = "True" -> "done"
                                        [] state = "False" -> "init_client"]
           /\ fout' = [fout EXCEPT !.got = IF state = "True" THEN @ \cup {fout.self[c]}
                                           ELSE @]
    /\ UNCHANGED BuildsRest

\* self.redis_client = redis.Redis(...)
InitClient(c) ==
    /\ pc[c] = "init_client"
    /\ fout' = [fout EXCEPT !.clients = @ + 1,
                            !.objs[fout.self[c]].client = fout.clients + 1]
    /\ pc' = [pc EXCEPT ![c] = "init_flag"]
    /\ UNCHANGED BuildsRest

\* self._initialized = True, and the call returns the object
InitFlag(c) ==
    /\ pc[c] = "init_flag"
    /\ fout' = [fout EXCEPT !.objs[fout.self[c]].initialized = "True",
                            !.got = @ \cup {fout.self[c]}]
    /\ pc' = [pc EXCEPT ![c] = "done"]
    /\ UNCHANGED BuildsRest

NextBuilds ==
    \/ \E c \in Callers : NewCheck(c)
    \/ \E c \in Callers : NewAlloc(c)
    \/ \E c \in Callers : NewFlag(c)
    \/ \E c \in Callers : NewReturn(c)
    \/ \E c \in Callers : InitCheck(c)
    \/ \E c \in Callers : InitClient(c)
    \/ \E c \in Callers : InitFlag(c)

SpecBuilds == InitBuilds /\ [][NextBuilds]_vars

\* C30: under any interleaving of threads that call RedisService(), all of
\* them obtain the same instance, and the store client is created at most
\* once in the process.
C30_OneInstanceOneClient ==
    Cardinality(fout.got) <= 1 /\ fout.clients <= 1

\* what holds instead: it is so while no call begins inside another thread's
\* call, and then no call raises either
C30_OneInstanceWhenSequential ==
    ~fout.overlapped =>
        /\ Cardinality(fout.got) <= 1 /\ fout.clients <= 1
        /\ \A c \in Callers : pc[c] # "raised"

----------------------------------------------------------------------------
(* Two callers that miss on one response key *)

\* callers c and d ran requests on one response cache key, each found nothing
\* under it, both were served, and no key has expired since the run began
BothMissed(c, d) ==
    /\ c # d
    /\ now = 0
    /\ req[c].cache_key # <<>> /\ req[c].cache_key = req[d].cache_key
    /\ \A e \in {c, d} : ServedAfterMiss(e)

\* this step is the set that ends c's request
Stores(c) == pc[c] = "store" /\ pc'[c] = "done"

\* C31: two callers that run generate_prompt_response for one cache key and
\* both miss each invoke the generation service and each issue a set; each
\* returns the text it generated itself, every set leaves its own value under
\* the key, so the key ends up holding the value of the later set, one of
\* the two.
C31_BothSetLaterWins ==
    /\ [](\A c, d \in Callers :
            BothMissed(c, d) =>
                /\ \A e \in {c, d} :
                       /\ log[e].gen = 1
                       /\ Len(SetsOn(e, req[e].cache_key)) = 1
                       /\ SetsOn(e, req[e].cache_key)[1].val = TextBytes(outcome[e].response)
                       /\ outcome[e].response \in ResponseTexts(e)
                /\ Live(store, req[c].cache_key, now)
                /\ store[req[c].cache_key].val \in
                       {TextBytes(outcome[c].response), TextBytes(outcome[d].response)})
    /\ [][ \A c \in Callers :
               Stores(c) =>
                   /\ Live(store', req[c].cache_key, now)
                   /\ store'[req[c].cache_key].val = TextBytes(req[c].response) ]_vars

\* both callers missed and generated different texts, and the key holds the
\* text of the second caller: the first caller's set was overwritten
C31_OverwroteTheOther ==
    /\ BothMissed("c1", "c2")
    /\ outcome["c1"].response # outcome["c2"].response
    /\ outcome["c1"].response # <<>>
    /\ store[req["c1"].cache_key].val = TextBytes(outcome["c2"].response)
    /\ log["c1"].sets # <<>>

----------------------------------------------------------------------------
(* PromptService.get_generated_prompt, and the catalog under every operation *)

MaxLookups == 1   \* calls of get_generated_prompt per run

S_prompt == <<"prompt">>
S_metadata == <<"metadata">>

\* hashlib.md5(json.dumps(params or {}, sort_keys=True).encode()).hexdigest();
\* the parameter sets here have at most one key, so sorting changes nothing
ParamsHash(params) == <<"md5(" \o Flat(DictRepr(params)) \o ")">>

\* a catalog whose entry is the very object the operation changed
TemplateShared(templates, template_key, changed) ==
    DictSet(templates, template_key, changed)

\* template_config = template_config.copy(): what is popped afterwards is
\* popped from the copy, the catalog keeps its entry
TemplateCopied(templates, template_key, changed) == templates

\* st: the store afterwards; templates: the catalog afterwards; ret: the
\* dictionary returned, or the exception
get_generated_prompt(templates, template_key, params, st, t, up) ==
    LET cache_key == PromptResponseKey(template_key, ParamsHash(params))
        cached_prompt == get_cached_response(st, cache_key, t, up)
        decoded == JsonLoads(cached_prompt)
        template_config == DictGetOr(templates, template_key, PNone)
        popped == Without(template_config, S_prompt)
        after == TemplateCopied(templates, template_key, popped)
        prompt_text == DictGet(template_config.v, S_prompt)
        formatted == IF params # <<>> THEN PyFormat(prompt_text.v, params)
                     ELSE FmtOk(prompt_text.v)
        generated_prompt == PDict(<< <<S_prompt, PStr(formatted.v)>>,
                                     <<S_metadata, popped>> >>)
    IN  IF Truthy(cached_prompt) /\ decoded.ok
            THEN [st |-> st, templates |-> templates, ret |-> Returned(decoded.doc)]
        ELSE IF ~PyTruthy(template_config)
            THEN [st |-> st, templates |-> templates, ret |-> Raised]
        ELSE IF ~IsDict(template_config) \/ ~DictHas(template_config.v, S_prompt)
            THEN [st |-> st, templates |-> templates, ret |-> Raised]
        ELSE IF ~formatted.ok
            THEN [st |-> st, templates |-> after, ret |-> Raised]
        ELSE [st |-> set_cached_response(
                         st, cache_key, JsonBytes(generated_prompt),
                         DictGetOr(popped.v, S_ttl_seconds, PInt(CACHE_TTL_DEFAULT)).v,
                         t, up),
              templates |-> after,
              ret |-> Returned(generated_prompt)]

\* a template that carries its prompt text
WithPrompt(template) ==
    PDict(template.v \o << <<S_prompt, PStr(<<"P", "{", "x", "}">>)>> >>)

PromptCatalogs ==
    { CatalogMixed(<<WithPrompt(TemplatePlain), WithPrompt(TemplateByX)>>),
      CatalogMixed(<<TemplatePlain, WithPrompt(TemplateByX)>>) }

LookupParams == { <<>>, << <<S_x, ValueA>> >>, << <<S_xs, ValueA>> >> }

NoLookup == [calls |-> 0, ret |-> Returned(PNone)]

InitCatalog ==
    /\ env = [flaky |-> FALSE, hours |-> 1, inits |-> 1, requests |-> 1]
    /\ templates_cache \in PromptCatalogs
    /\ data_sources \in DataSources
    /\ content_files \in ContentFiles
    /\ store = <<>>
    /\ now = 0
    /\ pc = [c \in Callers |-> "idle"]
    /\ req = [c \in Callers |-> NoReq]
    /\ log = [c \in Callers |-> NoLog]
    /\ outcome = [c \in Callers |-> NoOutcome]
    /\ started = 0
    /\ inits = NoInits
    /\ fin = <<>>
    /\ fout = NoLookup

\* a call of get_generated_prompt(template_key, params)
GetGeneratedPrompt ==
    /\ fout.calls < MaxLookups
    /\ \E i \in 1..Len(templates_cache), params \in LookupParams, up \in Ups :
          LET done == get_generated_prompt(templates_cache, templates_cache[i][1], params,
                                           store, now, up)
          IN  /\ store' = done.st
              /\ templates_cache' = done.templates
              /\ fout' = [calls |-> fout.calls + 1, ret |-> done.ret]
    /\ inits' = Disturbed
    /\ UNCHANGED <<data_sources, content_files, env, fin, now, pc, req, log, outcome,
                   started>>

NextCatalog == Next \/ GetGeneratedPrompt

SpecCatalog == InitCatalog /\ [][NextCatalog]_vars

\* C32: no operation of PromptService or WriterService changes the loaded
\* template catalog: every template keeps the fields and values it was
\* loaded with.
C32_CatalogNeverChanges ==
    [][templates_cache' = templates_cache]_vars

\* get_generated_prompt has returned a prompt whose metadata lack the prompt
\* text, after a run of initialize_prompts and a served request, and the
\* catalog's template still carries its prompt text
C32_PoppedFromTheCopy ==
    /\ fout.calls > 0
    /\ fout.ret.kind = "return"
    /\ DictHas(fout.ret.value.v, S_metadata)
    /\ ~DictHas(DictGet(fout.ret.value.v, S_metadata).v, S_prompt)
    /\ \E i \in 1..Len(templates_cache) :
           /\ IsDict(templates_cache[i][2])
           /\ DictHas(templates_cache[i][2].v, S_prompt)
           /\ Without(templates_cache[i][2], S_prompt)
                  = DictGet(fout.ret.value.v, S_metadata)
    /\ inits.runs > 0
    /\ \E c \in Callers : outcome[c].status = "Served"

----------------------------------------------------------------------------
(* WriterService._get_context_data: the parameters handed to an operation of
   the provider *)

MaxArgs == 2   \* declared arguments of an operation

S__id == <<"_", "i", "d">>

NoSource == [found |-> FALSE, key |-> <<>>]
SourceAt(key) == [found |-> TRUE, key |-> key]

\* a lookup that tries the name without its _id first
ArgumentSourceBaseFirst(param_name, params) ==
    IF EndsWith(param_name, S__id) /\ DictHas(params, DropLast(param_name, 3))
        THEN SourceAt(DropLast(param_name, 3))
    ELSE IF DictHas(params, param_name) THEN SourceAt(param_name)
    ELSE NoSource

\* "Try exact match first", else "try without '_id'"
ArgumentSource(param_name, params) ==
    IF DictHas(params, param_name) THEN SourceAt(param_name)
    ELSE IF EndsWith(param_name, S__id) /\ DictHas(params, DropLast(param_name, 3))
        THEN SourceAt(DropLast(param_name, 3))
    ELSE NoSource

RECURSIVE CallParams(_, _)
\* the loop over inspect.signature(method).parameters
CallParams(method_params, params) ==
    IF method_params = <<>> THEN <<>>
    ELSE LET before == CallParams(DropLast(method_params, 1), params)
             param_name == method_params[Len(method_params)]
             source == ArgumentSource(param_name, params)
         IN  IF source.found THEN DictSet(before, param_name, DictGet(params, source.key))
             ELSE before

ArgNames == {S_x, S_x \o S__id, S_y \o S__id, S__id}
ArgLists ==
    {args \in UNION {[1..n -> ArgNames] : n \in 0..MaxArgs} :
        \A i, j \in 1..Len(args) : i # j => args[i] # args[j]}
ArgParams ==
    {params \in UNION {[1..n -> {S_x, S_x \o S__id, S_y} \X {ValueA, ValueB}] :
                           n \in 0..MaxParams} :
        \A i, j \in 1..Len(params) : i # j => params[i][1] # params[j][1]}

NoCall == [done |-> FALSE, call_params |-> <<>>]

InitArgs ==
    /\ env = [flaky |-> FALSE, hours |-> 0, inits |-> 0, requests |-> 0]
    /\ templates_cache = <<>>
    /\ data_sources = <<>>
    /\ content_files \in ContentFiles
    /\ store = <<>>
    /\ now = 0
    /\ pc = [c \in Callers |-> "idle"]
    /\ req = [c \in Callers |-> NoReq]
    /\ log = [c \in Callers |-> NoLog]
    /\ outcome = [c \in Callers |-> NoOutcome]
    /\ started = 0
    /\ inits = NoInits
    /\ fin \in [method_params : ArgLists, params : ArgParams]
    /\ fout = NoCall

\* _get_context_data up to the call of the method
MapArguments ==
    /\ ~fout.done
    /\ fout' = [done |-> TRUE, call_params |-> CallParams(fin.method_params, fin.params)]
    /\ UNCHANGED <<templates_cache, data_sources, content_files, env, fin, Service>>

NextArgs == MapArguments

SpecArgs == InitArgs /\ [][NextArgs]_vars

\* C33: for every declared argument name a of an enrichment operation the
\* value passed is params[a] when a is a parameter name; otherwise, when a
\* ends in _id and a without the suffix is a parameter name, the value of
\* that parameter; otherwise a is not passed.  Nothing else is passed, and an
\* exact match wins over the match without the suffix.
C33_ExactThenWithoutSuffix ==
    fout.done =>
        /\ \A i \in 1..Len(fout.call_params) :
               fout.call_params[i][1] \in Range(fin.method_params)
        /\ \A a \in Range(fin.method_params) :
               LET passed == DictHas(fout.call_params, a)
                   base == SubSeq(a, 1, Len(a) - 3)
                   suffixed == Len(a) >= 3 /\ SubSeq(a, Len(a) - 2, Len(a)) = S__id
               IN  IF DictHas(fin.params, a)
                       THEN passed /\ DictGet(fout.call_params, a) = DictGet(fin.params, a)
                   ELSE IF suffixed /\ DictHas(fin.params, base)
                       THEN passed /\ DictGet(fout.call_params, a) = DictGet(fin.params, base)
                   ELSE ~passed

\* x_id was declared, the parameters held both x_id and x with different
\* values, and the value of x_id was passed
C33_ExactMatchWon ==
    /\ fout.done
    /\ DictHas(fin.params, S_x) /\ DictHas(fin.params, S_x \o S__id)
    /\ DictGet(fin.params, S_x) # DictGet(fin.params, S_x \o S__id)
    /\ DictHas(fout.call_params, S_x \o S__id)
    /\ DictGet(fout.call_params, S_x \o S__id) = DictGet(fin.params, S_x \o S__id)

----------------------------------------------------------------------------
(* RedisService.get_keys, one call of SCAN at a time *)

MaxCursor == 2   \* the largest cursor the store hands out

\* what the store answers to scan(cursor=c, ...): the cursor to go on with
\* and a page of keys
ScanReplies ==
    [0..MaxCursor -> [next : 0..MaxCursor, keys : {<<>>, <<"k1">>, <<"k2">>}]]

\* a loop that stops after its first page
ScanCompleteAtOnce(cursor) == TRUE

\* if cursor == 0: break
ScanComplete(cursor) == cursor = 0

\* calls: the cursors passed to scan so far, in order; keys: the list being
\* built; cursor: the cursor for the next call; ret: the list returned
NoScan == [phase |-> "idle", calls |-> <<>>, keys |-> <<>>, cursor |-> 0, ret |-> <<>>]

InitScan ==
    /\ env = [flaky |-> TRUE, hours |-> 0, inits |-> 0, requests |-> 0]
    /\ templates_cache = <<>>
    /\ data_sources = <<>>
    /\ content_files \in ContentFiles
    /\ store = <<>>
    /\ now = 0
    /\ pc = [c \in Callers |-> "idle"]
    /\ req = [c \in Callers |-> NoReq]
    /\ log = [c \in Callers |-> NoLog]
    /\ outcome = [c \in Callers |-> NoOutcome]
    /\ started = 0
    /\ inits = NoInits
    /\ fin \in [replies : ScanReplies]
    /\ fout = NoScan

ScanRest == <<templates_cache, data_sources, content_files, env, fin, Service>>

\* keys = []; cursor = 0
ScanBegin ==
    /\ fout.phase = "idle"
    /\ fout' = [NoScan EXCEPT !.phase = "scanning"]
    /\ UNCHANGED ScanRest

\* one turn of the while loop: a call of scan that answers, keys.extend, and
\* the test of the returned cursor
ScanPage ==
    /\ fout.phase = "scanning"
    /\ Len(fout.calls) < MaxCursor + 2
    /\ LET reply == fin.replies[fout.cursor]
           keys == fout.keys \o reply.keys
       IN  fout' = [phase |-> IF ScanComplete(reply.next) THEN "done" ELSE "scanning",
                    calls |-> Append(fout.calls, fout.cursor),
                    keys |-> keys,
                    cursor |-> reply.next,
                    ret |-> IF ScanComplete(reply.next) THEN keys ELSE <<>>]
    /\ UNCHANGED ScanRest

\* a call of scan that raises a RedisError: the handler returns []
ScanFails ==
    /\ fout.phase = "scanning"
    /\ FALSE \in Ups
    /\ fout' = [fout EXCEPT !.phase = "failed", !.ret = <<>>]
    /\ UNCHANGED ScanRest

NextScan == ScanBegin \/ ScanPage \/ ScanFails

\* the thread that runs get_keys keeps running while the store answers
SpecScan == InitScan /\ [][NextScan]_vars /\ WF_vars(ScanBegin) /\ WF_vars(ScanPage)

RECURSIVE PagesOf(_, _)
\* the keys of the pages the store answered the calls with, in order
PagesOf(replies, calls) ==
    IF calls = <<>> THEN <<>>
    ELSE PagesOf(replies, DropLast(calls, 1)) \o replies[calls[Len(calls)]].keys

RECURSIVE ReachesZero(_, _, _)
\* the store's cursor, followed from `cursor`, returns 0 within `turns` calls
ReachesZero(replies, cursor, turns) ==
    /\ turns > 0
    /\ \/ replies[cursor].next = 0
       \/ ReachesZero(replies, replies[cursor].next, turns - 1)

\* the calls made so far began at cursor 0 and each passed the cursor the
\* call before it returned, none of which was 0
Chained ==
    /\ fout.calls # <<>> => fout.calls[1] = 0
    /\ \A i \in 2..Len(fout.calls) :
           /\ fout.calls[i] = fin.replies[fout.calls[i - 1]].next
           /\ fout.calls[i] # 0

\* C34: get_keys calls scan again and again, passing each returned cursor to
\* the next call; it ends as soon as the store returns cursor 0 and then
\* returns every key of every page it received; and it ends for every key
\* space on which the store's cursor returns 0 at some call.
C34_ScansUntilCursorZero ==
    /\ [](/\ Chained
          /\ fout.phase = "done" =>
                 /\ fin.replies[fout.calls[Len(fout.calls)]].next = 0
                 /\ fout.ret = PagesOf(fin.replies, fout.calls))
    /\ (ReachesZero(fin.replies, 0, MaxCursor + 1) ~> fout.phase \in {"done", "failed"})

\* a scan of three pages has returned the keys of all of them
C34_ThreePagesReturned ==
    /\ fout.phase = "done"
    /\ Len(fout.calls) = 3
    /\ Len(fout.ret) = 3

----------------------------------------------------------------------------
(* generate_responses_by_template and the records of initialization *)

\* the Generated Prompt records the store holds for a template
RecordsOf(template_id) ==
    {key \in DOMAIN store : Live(store, key, now)
                             /\ StartsWith(key, RecordPrefix(template_id))}

\* generate_responses_by_template(fin.template_id) has returned
ByTemplateOver == fin.kind = "by_template" /\ BatchOver

\* C35: generate_responses_by_template(template_id) returns one entry, a
\* response or an error entry, for every Generated Prompt record that
\* initialization stored for the template, and the empty list only when the
\* store holds no such record.
C35_OneEntryPerRecord ==
    ByTemplateOver =>
        /\ Len(fout.results) = Cardinality(RecordsOf(fin.template_id))
        /\ fout.results = <<>> => RecordsOf(fin.template_id) = {}

\* what holds instead: it returns one entry for every key the store holds
\* under iq:prompt-response:<template_id>:, where initialization stores
\* nothing, and each of them is an error entry
C35_OneEntryPerResponseKey ==
    ByTemplateOver =>
        /\ Len(fout.results) =
               Cardinality({key \in DOMAIN store :
                               /\ Live(store, key, now)
                               /\ StartsWith(key, ScanPrefix("by_template",
                                                             fin.template_id))})
        /\ \A i \in 1..Len(fout.results) : fout.results[i] = "Failed"

----------------------------------------------------------------------------
(* Responses that outlive the record they were generated from *)

\* one catalog, and an hour more than in Spec: a response stored an hour
\* after its record is still in the store when the record has expired
\* one enrichment lookup and a TTL of two hours
TemplateLong ==
    Template(<<"T1">>, S_tp, <<"Q">>, CacheKeyById, <<S_get_characters>>,
             Enabled \o TwoHours)

InitExpiry ==
    InitOver([flaky |-> FALSE, hours |-> MaxTicks + 1, inits |-> MaxInits,
              requests |-> MaxRequests],
             {CatalogMixed(<<TemplateLong>>)})

SpecExpiry == InitExpiry /\ [][Next]_vars

\* caller d was served for an instantiation, and the store still holds a
\* non-empty response under the response key of that instantiation
ResponseHeld(d) ==
    /\ pc[d] = "done" /\ outcome[d].status = "Served"
    /\ req[d].cache_key # <<>>
    /\ Live(store, req[d].cache_key, now)
    /\ store[req[d].cache_key].val.s # <<>>

\* this step is c's call of generate_prompt_response for the instantiation
\* that d's request was for
CallsFor(c, d) ==
    /\ c # d
    /\ started' > started
    /\ log'[c] # log[c] \/ outcome'[c] # outcome[c] \/ pc'[c] # pc[c]
    /\ log[d].gets # <<>>
    /\ log'[c].gets = <<log[d].gets[1]>>

\* this step is the cache check of c's request, over a non-empty response
ChecksHeld(c) ==
    /\ pc[c] = "check_cache" /\ pc'[c] # "check_cache"
    /\ Live(store, req[c].cache_key, now)
    /\ store[req[c].cache_key].val.s # <<>>

\* C36: whenever the store holds a non-expired Generated Response for an
\* instantiation, generate_prompt_response called with its (template id,
\* prompt id) gets as far as the response key and returns what is stored
\* there, also after the Generated Prompt record has expired.
C36_HeldResponseReturned ==
    [][ \A c \in Callers :
           /\ \A d \in Callers :
                  ResponseHeld(d) /\ CallsFor(c, d) =>
                      /\ pc'[c] = "check_cache"
                      /\ req'[c].cache_key = req[d].cache_key
           /\ ChecksHeld(c) =>
                  outcome'[c] = Served(store[req[c].cache_key].val.s) ]_vars

\* what holds instead: the held response is returned while the Generated
\* Prompt record is in the store too; once the record has expired the call
\* raises "No prompt found" and the held response is out of reach
C36_ReturnedWhileRecordLives ==
    [][ \A c \in Callers :
           /\ \A d \in Callers :
                  ResponseHeld(d) /\ CallsFor(c, d) =>
                      IF Live(store, log[d].gets[1], now)
                          THEN /\ pc'[c] = "check_cache"
                               /\ req'[c].cache_key = req[d].cache_key
                      ELSE outcome'[c] = Failed("no prompt found")
           /\ ChecksHeld(c) =>
                  outcome'[c] = Served(store[req[c].cache_key].val.s) ]_vars

\* a response is held for an instantiation whose record has expired
C36_ResponseOutlivedRecord ==
    \E d \in Callers : ResponseHeld(d) /\ ~Live(store, log[d].gets[1], now)

----------------------------------------------------------------------------
(* Initialization over a store that already holds values under
   iq:prompt-response:<id> *)

\* the key generate_prompts_from_template reads before it builds a prompt
CheckedKey(template_id, params) ==
    PROMPT_PREFIX \o <<":">> \o DeriveId(template_id, params)

\* decodable values that are no record of the instantiation: a record of
\* another template under another id, a map with an id alone, a number
ForeignValues ==
    { JsonBytes(PDict(<< <<S_id, PStr(<<"p9">>)>>,
                         <<S_prompt_template_id, PStr(<<"T9">>)>> >>)),
      JsonBytes(PDict(<< <<S_id, PStr(<<"p9">>)>> >>)),
      TextBytes(<<"7">>) }

ForeignStores ==
    {<<>>} \cup
    { set_cached_response(<<>>, CheckedKey(<<"T1">>, <<>>), val, 2 * CACHE_TTL_DEFAULT,
                          0, TRUE) : val \in ForeignValues }

InitForeign ==
    /\ env = [flaky |-> FALSE, hours |-> MaxTicks, inits |-> MaxInits,
              requests |-> MaxRequests - 1]
    /\ templates_cache = CatalogMixed(<<TemplatePlain, TemplateByX>>)
    /\ data_sources \in DataSources
    /\ content_files \in ContentFiles
    /\ store \in ForeignStores
    /\ now = 0
    /\ pc = [c \in Callers |-> "idle"]
    /\ req = [c \in Callers |-> NoReq]
    /\ log = [c \in Callers |-> NoLog]
    /\ outcome = [c \in Callers |-> NoOutcome]
    /\ started = 0
    /\ inits = NoInits
    /\ fin = <<>>
    /\ fout = <<>>

SpecForeign == InitForeign /\ [][Next]_vars

\* the record under a Generated Prompt key
RecordAt(key) == store[key].val.doc

\* C37: every record that initialize_prompts writes under
\* iq:generated-prompt:<t>:<p> has id p and prompt_template_id t, whatever
\* the other keys of the store hold, a decodable value under
\* iq:prompt-response:<p> included.
C37_RecordMatchesItsKey ==
    \A key \in PromptKeys(store) :
        /\ IsDict(RecordAt(key))
        /\ DictHas(RecordAt(key).v, S_id)
        /\ DictHas(RecordAt(key).v, S_prompt_template_id)
        /\ key = GeneratedPromptKey(DictGet(RecordAt(key).v, S_prompt_template_id).v,
                                    DictGet(RecordAt(key).v, S_id).v)

\* what holds instead: the id of a record is the last segment of its key,
\* and its prompt_template_id is the template of its key while the store
\* holds nothing under iq:prompt-response:
C37_IdMatchesItsKey ==
    \A key \in PromptKeys(store) :
        /\ IsDict(RecordAt(key))
        /\ DictHas(RecordAt(key).v, S_id)
        /\ LastSegment(key, ":") = PyStr(DictGet(RecordAt(key).v, S_id))
        /\ (\A other \in DOMAIN store : ~StartsWith(other, PROMPT_PREFIX \o <<":">>)) =>
               /\ DictHas(RecordAt(key).v, S_prompt_template_id)
               /\ key = GeneratedPromptKey(
                            DictGet(RecordAt(key).v, S_prompt_template_id).v,
                            DictGet(RecordAt(key).v, S_id).v)

----------------------------------------------------------------------------
(* The writer over a catalog whose template was switched off after an
   earlier run stored its records *)

\* the catalog of the earlier run and the catalog of this one
CatalogBefore == CatalogMixed(<<TemplateLong, TemplateByX>>)

CatalogNow == CatalogMixed(<<Disabled(TemplateLong), TemplateByX>>)

\* the store the earlier run's initialize_prompts left
LeftoverStores ==
    { <<>> } \cup
    { initialize_prompts(CatalogBefore, sources, <<S_id, S_x>>, <<>>, 0, TRUE).st :
          sources \in DataSources }

InitLeftover ==
    /\ env = [flaky |-> FALSE, hours |-> 0, inits |-> 1, requests |-> 0]
    /\ templates_cache = CatalogNow
    /\ data_sources \in DataSources
    /\ content_files \in ContentFiles
    /\ store \in LeftoverStores
    /\ now = 0
    /\ pc = [c \in Callers |-> "idle"]
    /\ req = [c \in Callers |-> NoReq]
    /\ log = [c \in Callers |-> NoLog]
    /\ outcome = [c \in Callers |-> NoOutcome]
    /\ started = 0
    /\ inits = NoInits
    /\ fin \in [kind : {"main"}, template_id : {<<"T2">>}, rank : Rankings]
    /\ fout = NoBatch

\* main: initialize_services, then the loop over the catalog's templates
NextMain ==
    \/ InitializePrompts
    \/ StartBatch
    \/ ScanTemplate
    \/ BeginItem
    \/ \E c \in Callers : CheckCache(c)
    \/ \E c \in Callers : Enrich(c)
    \/ \E c \in Callers : Generate(c)
    \/ \E c \in Callers : StoreResponse(c)
    \/ EndItem

SpecLeftover == InitLeftover /\ [][NextMain]_vars

\* this step calls the enrichment provider or the generation service for
\* caller c
Invokes(c) ==
    \/ pc[c] = "enrich" /\ log'[c] # log[c]
    \/ log'[c].gen > log[c].gen

\* C38: in a run of the writer, initialization and then the main loop,
\* neither the enrichment provider nor the generation service is invoked
\* for an instantiation of a template whose enabled flag is false, records
\* of that template left in the store by an earlier run or not.
C38_DisabledNeverInvoked ==
    [][ \A c \in Callers :
            Invokes(c) => req[c].template_id \notin DisabledIds(templates_cache) ]_vars

\* what holds instead: the services are invoked for a disabled template
\* only over a record of it that the store still holds
C38_InvokedOverLeftoverOnly ==
    [][ \A c \in Callers :
            Invokes(c) /\ req[c].template_id \in DisabledIds(templates_cache) =>
                GeneratedPromptKey(req[c].template_id, req[c].prompt_id) \in DOMAIN store
      ]_vars

----------------------------------------------------------------------------
(* iq-bot-reader api/routes.py: GET /api/v1/prompts/<prompt_id> *)

MaxReads == 2

\* get_prompt(prompt_id): get_keys("iq:generated-prompt:*<prompt_id>"), the
\* first key read, its value decoded, and on a JSONDecodeError
\* delete_cached_response("iq:prompt-response:<prompt_id>"); `keys` is the
\* list the scan returned, up_get and up_del say whether the store answers.
\* [st, read, status, undecodable]
get_prompt(st, prompt_id, keys, t, up_get, up_del) ==
    IF keys = <<>>
        THEN [st |-> st, read |-> <<>>, status |-> 404, undecodable |-> FALSE]
    ELSE LET cached_prompt == get_cached_response(st, keys[1], t, up_get)
         IN  IF ~Truthy(cached_prompt)
                 THEN [st |-> st, read |-> keys[1], status |-> 404, undecodable |-> FALSE]
             ELSE IF JsonLoads(cached_prompt).ok
                 THEN [st |-> st, read |-> keys[1], status |-> 200, undecodable |-> FALSE]
             ELSE [st |-> delete_cached_response(
                              st, PROMPT_PREFIX \o <<":">> \o prompt_id, up_del),
                   read |-> keys[1], status |-> 404, undecodable |-> TRUE]

\* the keys matching iq:generated-prompt:*<prompt_id>, in the orders a scan
\* may list them
MatchingKeys(st, prompt_id, t, up) ==
    IF up THEN Orderings({key \in DOMAIN st :
                             /\ Live(st, key, t)
                             /\ StartsWith(key, GENERATED_PROMPT_PREFIX \o <<":">>)
                             /\ EndsWith(key, prompt_id)})
    ELSE {<<>>}

ReaderIds == {<<"p1">>, <<"p2">>, <<"p3">>}

\* a record as the writer stores it, and bytes that are no JSON
ReaderRecord(prompt_id) == JsonBytes(PDict(<< <<S_id, PStr(prompt_id)>> >>))

NotJson == TextBytes(<<"{">>)

\* the stores the reader is asked over: a record or undecodable bytes under
\* iq:generated-prompt:T1:<p>, a response under iq:prompt-response:<p>
ReaderEntries(prompt_id) ==
    { <<>> } \cup
    { set_cached_response(
          IF response THEN set_cached_response(
                               <<>>, PROMPT_PREFIX \o <<":">> \o prompt_id,
                               TextBytes(<<"a">>), CACHE_TTL_DEFAULT, 0, TRUE)
          ELSE <<>>,
          GeneratedPromptKey(<<"T1">>, prompt_id), val, CACHE_TTL_DEFAULT, 0, TRUE) :
          val \in {ReaderRecord(prompt_id), NotJson}, response \in BOOLEAN }

ReaderStores == {a @@ b : a \in ReaderEntries(<<"p1">>), b \in ReaderEntries(<<"p2">>)}

InitReader ==
    /\ env = [flaky |-> TRUE, hours |-> 0, inits |-> 0, requests |-> 0]
    /\ templates_cache = <<>>
    /\ data_sources = <<>>
    /\ content_files \in ContentFiles
    /\ store \in ReaderStores
    /\ now = 0
    /\ pc = [c \in Callers |-> "idle"]
    /\ req = [c \in Callers |-> NoReq]
    /\ log = [c \in Callers |-> NoLog]
    /\ outcome = [c \in Callers |-> NoOutcome]
    /\ started = 0
    /\ inits = NoInits
    /\ fin = <<>>
    /\ fout = <<>>

\* one request to the endpoint, start to end
GetPrompt ==
    /\ Len(fout) < MaxReads
    /\ \E prompt_id \in ReaderIds, up_scan \in Ups, up_get \in Ups, up_del \in Ups :
       \E keys \in MatchingKeys(store, prompt_id, now, up_scan) :
           LET got == get_prompt(store, prompt_id, keys, now, up_get, up_del)
           IN  /\ store' = got.st
               /\ fout' = Append(fout, [prompt_id |-> prompt_id, read |-> got.read,
                                        status |-> got.status,
                                        undecodable |-> got.undecodable])
    /\ UNCHANGED <<templates_cache, data_sources, content_files, env, fin, now, pc, req,
                   log, outcome, started, inits>>

NextReader == GetPrompt

SpecReader == InitReader /\ [][NextReader]_vars

\* the keys a step takes out of the store, and the request that just ended
Removed == DOMAIN store \ DOMAIN store'

\* C39: the get-prompt-by-id endpoint deletes no key other than the one it
\* read: when the record it fetched cannot be decoded the only key it removes
\* is that record's key, and in every other case the store is unchanged.
C39_DeletesOnlyTheKeyRead ==
    [][ Len(fout') > Len(fout) =>
            LET call == fout'[Len(fout')]
            IN  IF call.undecodable
                    THEN /\ Removed \subseteq {call.read}
                         /\ \A key \in DOMAIN store' : store'[key] = store[key]
                ELSE store' = store ]_vars

\* what holds instead: on an undecodable record the endpoint removes
\* iq:prompt-response:<prompt_id> and nothing else, the record stays, and in
\* every other case the store is unchanged
C39_DeletesTheResponseKey ==
    [][ Len(fout') > Len(fout) =>
            LET call == fout'[Len(fout')]
            IN  IF call.undecodable
                    THEN /\ Removed \subseteq {PROMPT_PREFIX \o <<":">> \o call.prompt_id}
                         /\ call.read \in DOMAIN store'
                         /\ \A key \in DOMAIN store' : store'[key] = store[key]
                ELSE store' = store ]_vars

\* an undecodable record was read and the response of its id was removed
C39_ResponseRemoved ==
    /\ fout # <<>>
    /\ fout[Len(fout)].undecodable
    /\ fout[Len(fout)].read \in DOMAIN store
    /\ PROMPT_PREFIX \o <<":">> \o fout[Len(fout)].prompt_id \notin DOMAIN store

====
